---- MODULE Spec2Model ----
(***************************************************************************)
(* A model of the mem store (src/src/storage.rs, src/src/mem.rs).          *)
(*                                                                         *)
(* Strings are sequences of one-character strings.  A logical path is the  *)
(* sequence of its '/'-separated segments; a file-system path is the       *)
(* sequence of its components below the store root, so the root is << >>.  *)
(* The file system is a record [dirs, files]: the set of directories and   *)
(* the function from regular files to their contents.                      *)
(***************************************************************************)
EXTENDS Naturals, Sequences, FiniteSets, TLC

VARIABLES fs, last, ops, wr, rd, committed, cx, data, pr, named

vars == <<fs, last, ops, wr, rd, committed, cx, data, pr, named>>

(***************************************************************************)
(* Bounds of the model.                                                    *)
(***************************************************************************)
\* operations of one run of the sequential store
MaxOps == 4
\* distinct values rand_u32() takes in the model
MaxRand == 1
\* write(2) calls a write_all of one file is split into
MaxChunks == 2
\* length of the bodies the codec is exercised on
MaxBody == 4
\* the greatest instant the system clock returns
MaxClock == 1
\* characters of a body line the link scanner is stepped over
MaxLine == 4

(***************************************************************************)
(* Characters and strings.                                                 *)
(***************************************************************************)
NL == "\n"

\* The characters of path names, in byte order ('-' 45, '.' 46, '/' 47,
\* digits, then letters).
Alphabet ==
  << "-", ".", "/", "0", "1", "a", "b", "c", "d", "e", "h", "i", "m", "p",
     "r", "t", "v" >>

Ord(c) == CHOOSE i \in 1..Len(Alphabet) : Alphabet[i] = c

StartsWith(s, pre) ==
  Len(pre) <= Len(s) /\ SubSeq(s, 1, Len(pre)) = pre

EndsWith(s, suf) ==
  Len(suf) <= Len(s) /\ SubSeq(s, Len(s) - Len(suf) + 1, Len(s)) = suf

\* str::find: the index (from 1) of the first occurrence of pat in s, 0 if none
Find(s, pat) ==
  LET hits == { i \in 1..(Len(s) + 1) : StartsWith(SubSeq(s, i, Len(s)), pat) }
  IN  IF hits = {} THEN 0 ELSE CHOOSE i \in hits : \A j \in hits : i <= j

\* str::trim_start_matches(c): every leading c is removed
RECURSIVE TrimStartMatches(_, _)
TrimStartMatches(s, c) ==
  IF s # << >> /\ Head(s) = c THEN TrimStartMatches(Tail(s), c) ELSE s

\* str::trim_end_matches(suf): every trailing repetition of suf is removed
RECURSIVE TrimEndMatches(_, _)
TrimEndMatches(s, suf) ==
  IF suf # << >> /\ EndsWith(s, suf)
  THEN TrimEndMatches(SubSeq(s, 1, Len(s) - Len(suf)), suf)
  ELSE s

\* byte-wise lexicographic order of two strings: s < t
RECURSIVE StrLess(_, _)
StrLess(s, t) ==
  IF t = << >> THEN FALSE
  ELSE IF s = << >> THEN TRUE
  ELSE IF Head(s) = Head(t) THEN StrLess(Tail(s), Tail(t))
  ELSE Ord(Head(s)) < Ord(Head(t))

DotMd == << ".", "m", "d" >>
DotTmp == << ".", "t", "m", "p" >>
ArchiveName == << "a", "r", "c", "h", "i", "v", "e" >>

(***************************************************************************)
(* Paths.                                                                  *)
(***************************************************************************)
Root == << >>

Parent(p) == SubSeq(p, 1, Len(p) - 1)

Last(p) == p[Len(p)]

IsPrefix(d, p) == Len(d) <= Len(p) /\ SubSeq(p, 1, Len(d)) = d

IsStrictPrefix(d, p) == Len(d) < Len(p) /\ SubSeq(p, 1, Len(d)) = d

\* the logical path as one string, segments joined by '/'
RECURSIVE PathString(_)
PathString(p) ==
  IF p = << >> THEN << >>
  ELSE IF Len(p) = 1 THEN p[1]
  ELSE p[1] \o << "/" >> \o PathString(Tail(p))

\* Path::cmp: component by component, each component byte-wise
RECURSIVE PathLess(_, _)
PathLess(p, q) ==
  IF q = << >> THEN FALSE
  ELSE IF p = << >> THEN TRUE
  ELSE IF Head(p) = Head(q) THEN PathLess(Tail(p), Tail(q))
  ELSE StrLess(Head(p), Head(q))

\* Storage::mem_path: root.join(format!("{path}.md"))
mem_path(path) == Parent(path) \o << Last(path) \o DotMd >>

(***************************************************************************)
(* The document model (src/src/mem.rs).                                    *)
(*                                                                         *)
(* A Mem is [path, title, created_at, updated_at, tags, content]; the      *)
(* timestamps are instants, counted in clock ticks.                        *)
(*                                                                         *)
(* The header is written and read by the serde_yaml crate, which is not    *)
(* part of the repository.  It is modelled on the YAML subset the store    *)
(* itself produces: one "key: value" line per field in declaration order,  *)
(* a block sequence for the tags, scalars plain when they consist of       *)
(* letters and double-quoted with escapes otherwise.  Every other header   *)
(* text is rejected.                                                       *)
(***************************************************************************)
Dashes == << "-", "-", "-" >>

KeyTitle == << "t", "i", "t", "l", "e", ":", " " >>
KeyCreated == << "c", "r", "e", "a", "t", "e", "d", "-", "a", "t", ":", " " >>
KeyUpdated == << "u", "p", "d", "a", "t", "e", "d", "-", "a", "t", ":", " " >>
KeyTags == << "t", "a", "g", "s", ":" >>
ItemMark == << "-", " " >>

DigitChars == << "0", "1", "2", "3", "4", "5", "6", "7", "8", "9" >>

PlainChars == { "x", "y", "z", "w" }

\* the decimal numeral of n
RECURSIVE Digits(_)
Digits(n) ==
  IF n < 10 THEN << DigitChars[n + 1] >>
  ELSE Digits(n \div 10) \o << DigitChars[(n % 10) + 1] >>

IsNumeral(s) ==
  s # << >> /\ \A i \in 1..Len(s) : \E k \in 1..10 : DigitChars[k] = s[i]

RECURSIVE NumeralValue(_)
NumeralValue(s) ==
  IF s = << >> THEN 0
  ELSE NumeralValue(SubSeq(s, 1, Len(s) - 1)) * 10
       + ((CHOOSE k \in 1..10 : DigitChars[k] = s[Len(s)]) - 1)

\* a DateTime<Utc> as chrono's serde implementation writes it: the full
\* instant, nothing rounded away
TimestampText(t) == Digits(t) \o << "Z" >>

IsTimestampText(s) ==
  Len(s) >= 2 /\ s[Len(s)] = "Z" /\ IsNumeral(SubSeq(s, 1, Len(s) - 1))

TimestampValue(s) == NumeralValue(SubSeq(s, 1, Len(s) - 1))

IsPlain(s) == s # << >> /\ \A i \in 1..Len(s) : s[i] \in PlainChars

RECURSIVE Escape(_)
Escape(s) ==
  IF s = << >> THEN << >>
  ELSE (IF Head(s) = NL THEN << "\\", "n" >>
        ELSE IF Head(s) \in { "\"", "\\" } THEN << "\\", Head(s) >>
        ELSE << Head(s) >>) \o Escape(Tail(s))

\* TRUE iff s is the inside of a well-formed double-quoted scalar
RECURSIVE IsEscaped(_)
IsEscaped(s) ==
  IF s = << >> THEN TRUE
  ELSE IF Head(s) = "\\"
       THEN Len(s) >= 2 /\ s[2] \in { "n", "\"", "\\" }
            /\ IsEscaped(SubSeq(s, 3, Len(s)))
       ELSE Head(s) # "\"" /\ IsEscaped(Tail(s))

RECURSIVE Unescape(_)
Unescape(s) ==
  IF s = << >> THEN << >>
  ELSE IF Head(s) = "\\"
       THEN << (IF s[2] = "n" THEN NL ELSE s[2]) >>
            \o Unescape(SubSeq(s, 3, Len(s)))
       ELSE << Head(s) >> \o Unescape(Tail(s))

ScalarText(s) ==
  IF IsPlain(s) THEN s ELSE << "\"" >> \o Escape(s) \o << "\"" >>

IsScalarText(v) ==
  \/ IsPlain(v)
  \/ /\ Len(v) >= 2
     /\ v[1] = "\"" /\ v[Len(v)] = "\""
     /\ IsEscaped(SubSeq(v, 2, Len(v) - 1))

ScalarValue(v) ==
  IF IsPlain(v) THEN v ELSE Unescape(SubSeq(v, 2, Len(v) - 1))

RECURSIVE TagLines(_)
TagLines(tags) ==
  IF tags = << >> THEN << >>
  ELSE ItemMark \o ScalarText(Head(tags)) \o << NL >> \o TagLines(Tail(tags))

\* serde_yaml::to_string(&Frontmatter): tags are skipped when empty
to_yaml(fm) ==
  KeyTitle \o ScalarText(fm.title) \o << NL >>
  \o KeyCreated \o TimestampText(fm.created_at) \o << NL >>
  \o KeyUpdated \o TimestampText(fm.updated_at) \o << NL >>
  \o (IF fm.tags = << >> THEN << >>
      ELSE KeyTags \o << NL >> \o TagLines(fm.tags))

\* the lines of s, split at every newline
RECURSIVE Lines(_)
Lines(s) ==
  LET i == Find(s, << NL >>)
  IN  IF i = 0 THEN << s >>
      ELSE << SubSeq(s, 1, i - 1) >> \o Lines(SubSeq(s, i + 1, Len(s)))

NoFrontmatter == [title |-> << >>, created_at |-> 0, updated_at |-> 0, tags |-> << >>]

\* serde_yaml::from_str::<Frontmatter>: title, created-at and updated-at are
\* required, tags default to the empty list
from_yaml(y) ==
  LET ls == Lines(y)
      tagLs == SubSeq(ls, 5, Len(ls))
      head ==
        /\ Len(ls) >= 3
        /\ StartsWith(ls[1], KeyTitle)
        /\ IsScalarText(SubSeq(ls[1], Len(KeyTitle) + 1, Len(ls[1])))
        /\ StartsWith(ls[2], KeyCreated)
        /\ IsTimestampText(SubSeq(ls[2], Len(KeyCreated) + 1, Len(ls[2])))
        /\ StartsWith(ls[3], KeyUpdated)
        /\ IsTimestampText(SubSeq(ls[3], Len(KeyUpdated) + 1, Len(ls[3])))
      tail ==
        \/ Len(ls) = 3
        \/ /\ Len(ls) >= 5
           /\ ls[4] = KeyTags
           /\ \A i \in 1..Len(tagLs) :
                /\ StartsWith(tagLs[i], ItemMark)
                /\ IsScalarText(SubSeq(tagLs[i], Len(ItemMark) + 1, Len(tagLs[i])))
  IN  IF head /\ tail
      THEN [ok |-> TRUE,
            fm |-> [title |-> ScalarValue(SubSeq(ls[1], Len(KeyTitle) + 1, Len(ls[1]))),
                    created_at |->
                      TimestampValue(SubSeq(ls[2], Len(KeyCreated) + 1, Len(ls[2]))),
                    updated_at |->
                      TimestampValue(SubSeq(ls[3], Len(KeyUpdated) + 1, Len(ls[3]))),
                    tags |->
                      [i \in 1..Len(tagLs) |->
                         ScalarValue(SubSeq(tagLs[i], Len(ItemMark) + 1, Len(tagLs[i])))]]]
      ELSE [ok |-> FALSE, fm |-> NoFrontmatter]

NoMem ==
  [path |-> << >>, title |-> << >>, created_at |-> 0, updated_at |-> 0,
   tags |-> << >>, content |-> << >>]

NoParse == [err |-> "none", mem |-> NoMem]

CodecIdle == [pc |-> "idle", mem |-> NoMem, text |-> << >>, parsed |-> NoParse]

\* Mem::serialize: format!("---\n{yaml}---\n{}", self.content)
serialize(mem) ==
  Dashes \o << NL >>
  \o to_yaml([title |-> mem.title, created_at |-> mem.created_at,
              updated_at |-> mem.updated_at, tags |-> mem.tags])
  \o Dashes \o << NL >> \o mem.content

\* the body Mem::parse cuts out of what follows the closing delimiter
parse_body(after) == TrimStartMatches(after, NL)

\* Mem::parse
parse(path, content) ==
  IF ~StartsWith(content, Dashes)
  THEN [err |-> "missing frontmatter", mem |-> NoMem]
  ELSE
    LET rest == SubSeq(content, 4, Len(content))
        end_pos == Find(rest, << NL >> \o Dashes)
    IN  IF end_pos = 0
        THEN [err |-> "no closing delimiter", mem |-> NoMem]
        ELSE
          LET yaml_content == TrimStartMatches(SubSeq(rest, 1, end_pos - 1), NL)
              markdown_content == parse_body(SubSeq(rest, end_pos + 4, Len(rest)))
              frontmatter == from_yaml(yaml_content)
          IN  IF ~frontmatter.ok
              THEN [err |-> "invalid frontmatter", mem |-> NoMem]
              ELSE [err |-> "",
                    mem |-> [path |-> path,
                             title |-> frontmatter.fm.title,
                             created_at |-> frontmatter.fm.created_at,
                             updated_at |-> frontmatter.fm.updated_at,
                             tags |-> frontmatter.fm.tags,
                             content |-> markdown_content]]

(***************************************************************************)
(* The file system below the store root.                                   *)
(***************************************************************************)
\* Path::exists
path_exists(f, p) == p \in f.dirs \/ p \in DOMAIN f.files

\* Path::is_dir
is_dir(f, p) == p \in f.dirs

\* the entries read_dir(d) yields
read_dir(f, d) ==
  { p \in f.dirs \cup DOMAIN f.files : p # Root /\ Parent(p) = d }

Prefixes(d) == { SubSeq(d, 1, k) : k \in 0..Len(d) }

Restrict(files, keep) == [p \in keep |-> files[p]]

PutFile(files, p, text) ==
  [q \in DOMAIN files \cup { p } |-> IF q = p THEN text ELSE files[q]]

\* fs::create_dir_all(d): fails, creating nothing, when a component of d is
\* a regular file
create_dir_all(f, d) ==
  IF \E q \in Prefixes(d) : q \in DOMAIN f.files
  THEN [ok |-> FALSE, fs |-> f]
  ELSE [ok |-> TRUE, fs |-> [f EXCEPT !.dirs = @ \cup Prefixes(d)]]

\* File::create(p) followed by write_all and sync_all: an existing file is
\* truncated and rewritten; fails when the parent is no directory or p is one
create_file(f, p, text) ==
  IF ~is_dir(f, Parent(p)) \/ is_dir(f, p)
  THEN [ok |-> FALSE, fs |-> f]
  ELSE [ok |-> TRUE, fs |-> [f EXCEPT !.files = PutFile(@, p, text)]]

\* fs::remove_file(p): fails on a directory and on a missing file
remove_file(f, p) ==
  IF p \notin DOMAIN f.files
  THEN [ok |-> FALSE, fs |-> f]
  ELSE [ok |-> TRUE,
        fs |-> [f EXCEPT !.files = Restrict(@, DOMAIN @ \ { p })]]

\* the removal of a directory with all it holds
remove_dir_all(f, p) ==
  IF is_dir(f, p)
  THEN [ok |-> TRUE,
        fs |-> [dirs |-> { d \in f.dirs : ~IsPrefix(p, d) },
                files |-> Restrict(f.files,
                                   { q \in DOMAIN f.files : ~IsPrefix(p, q) })]]
  ELSE [ok |-> FALSE, fs |-> f]

\* fs::remove_dir(p): fails unless p is an empty directory
remove_dir(f, p) ==
  IF is_dir(f, p) /\ read_dir(f, p) = {}
  THEN [ok |-> TRUE, fs |-> [f EXCEPT !.dirs = @ \ { p }]]
  ELSE [ok |-> FALSE, fs |-> f]

Rebase(p, src, dst) == dst \o SubSeq(p, Len(src) + 1, Len(p))

\* rename as a copy that leaves the source in place
rename_keeps_source(f, src, dst) ==
  IF src \in DOMAIN f.files /\ ~is_dir(f, dst) /\ is_dir(f, Parent(dst))
  THEN [ok |-> TRUE, fs |-> [f EXCEPT !.files = PutFile(@, dst, f.files[src])]]
  ELSE [ok |-> FALSE, fs |-> f]

\* fs::rename(src, dst), as rename(2): a file replaces a file, never a
\* directory; a directory moves with all it holds, and replaces only an empty
\* directory
rename(f, src, dst) ==
  IF src \in DOMAIN f.files
  THEN IF is_dir(f, dst) \/ ~is_dir(f, Parent(dst))
       THEN [ok |-> FALSE, fs |-> f]
       ELSE [ok |-> TRUE,
             fs |-> [f EXCEPT !.files =
                       PutFile(Restrict(@, DOMAIN @ \ { src }), dst, f.files[src])]]
  ELSE IF is_dir(f, src)
  THEN IF \/ dst \in DOMAIN f.files
          \/ ~is_dir(f, Parent(dst))
          \/ IsPrefix(src, dst)
          \/ (is_dir(f, dst) /\ read_dir(f, dst) # {})
       THEN [ok |-> FALSE, fs |-> f]
       ELSE LET movedD == { p \in f.dirs : IsPrefix(src, p) }
                movedF == { p \in DOMAIN f.files : IsPrefix(src, p) }
                keptF == DOMAIN f.files \ movedF
            IN  [ok |-> TRUE,
                 fs |-> [dirs |-> (f.dirs \ movedD)
                                    \cup { Rebase(p, src, dst) : p \in movedD },
                         files |->
                           [q \in keptF \cup { Rebase(p, src, dst) : p \in movedF } |->
                              IF q \in keptF THEN f.files[q]
                              ELSE f.files[CHOOSE p \in movedF :
                                             Rebase(p, src, dst) = q]]]]
  ELSE [ok |-> FALSE, fs |-> f]

(***************************************************************************)
(* The store (src/src/storage.rs).  Every operation returns the status it  *)
(* ends with and the file system it leaves.                                *)
(***************************************************************************)
HexChars == << "0", "1", "2", "3", "4", "5", "6", "7", "8", "9" >>

\* temp_name with the suffix forgotten: the temporary file is the target
temp_name_is_target(file_name, rand) == file_name

\* temp_name with the file name forgotten: one name per value of rand
temp_name_without_file(file_name, rand) ==
  << "0", "0", "0", "0", "0", "0", "0", HexChars[rand + 1] >> \o DotTmp

\* format!("{}.{rand:08x}.tmp", file_name)
temp_name(file_name, rand) ==
  file_name \o << ".", "0", "0", "0", "0", "0", "0", "0", HexChars[rand + 1] >>
  \o DotTmp

temp_path(path, rand) == Parent(path) \o << temp_name(Last(path), rand) >>

\* Storage::write_atomic
write_atomic(f, path, content, rand) ==
  LET parent == Parent(path)
      made == IF path_exists(f, parent) THEN [ok |-> TRUE, fs |-> f]
              ELSE create_dir_all(f, parent)
      temp == temp_path(path, rand)
      created == create_file(made.fs, temp, content)
      renamed == rename(created.fs, temp, path)
  IN  IF ~made.ok THEN [status |-> "io error", fs |-> made.fs]
      ELSE IF ~created.ok THEN [status |-> "io error", fs |-> created.fs]
      ELSE IF ~renamed.ok THEN [status |-> "io error", fs |-> renamed.fs]
      ELSE [status |-> "ok", fs |-> renamed.fs]

\* Storage::write_mem
write_mem(f, mem, rand) ==
  write_atomic(f, mem_path(mem.path), serialize(mem), rand)

\* Storage::read_mem
read_mem(f, path) ==
  LET file_path == mem_path(path)
  IN  IF ~path_exists(f, file_path)
      THEN [status |-> "not found", mem |-> NoMem]
      ELSE IF file_path \notin DOMAIN f.files
      THEN [status |-> "io error", mem |-> NoMem]
      ELSE LET parsed == parse(path, f.files[file_path])
           IN  IF parsed.err = "" THEN [status |-> "ok", mem |-> parsed.mem]
               ELSE [status |-> "corrupt", mem |-> NoMem]

\* exists that looks into the archive as well
exists_or_archived(f, path) ==
  path_exists(f, mem_path(path)) \/ path_exists(f, << ArchiveName >> \o mem_path(path))

\* Storage::exists
exists(f, path) == path_exists(f, mem_path(path))

\* the clean-up with the loop forgotten: only the nearest directory goes
prune_one_level(f, p) ==
  IF p # Root /\ is_dir(f, p) /\ read_dir(f, p) = {}
  THEN remove_dir(f, p).fs
  ELSE f

\* the clean-up with the test for the root forgotten
RECURSIVE prune_through_root(_, _)
prune_through_root(f, p) ==
  IF is_dir(f, p) /\ read_dir(f, p) = {}
  THEN IF p = Root THEN remove_dir(f, p).fs
       ELSE prune_through_root(remove_dir(f, p).fs, Parent(p))
  ELSE f

\* the clean-up loop of delete_mem and archive_mem: from p upwards, every
\* empty directory below the root is removed, up to the first that is not
RECURSIVE prune(_, _)
prune(f, p) ==
  IF p = Root THEN f
  ELSE IF is_dir(f, p) /\ read_dir(f, p) = {}
       THEN prune(remove_dir(f, p).fs, Parent(p))
       ELSE f

\* Storage::delete_mem
delete_mem(f, path) ==
  LET file_path == mem_path(path)
      removed == remove_file(f, file_path)
  IN  IF ~path_exists(f, file_path) THEN [status |-> "not found", fs |-> f]
      ELSE IF ~removed.ok THEN [status |-> "io error", fs |-> f]
      ELSE [status |-> "ok", fs |-> prune(removed.fs, Parent(file_path))]

\* Storage::archive_mem
archive_mem(f, path) ==
  LET src == mem_path(path)
      archive_path == << ArchiveName >> \o mem_path(path)
      made == create_dir_all(f, Parent(archive_path))
      renamed == rename(made.fs, src, archive_path)
  IN  IF ~path_exists(f, src) THEN [status |-> "not found", fs |-> f]
      ELSE IF ~made.ok THEN [status |-> "io error", fs |-> made.fs]
      ELSE IF ~renamed.ok THEN [status |-> "io error", fs |-> renamed.fs]
      ELSE [status |-> "ok", fs |-> prune(renamed.fs, Parent(src))]

\* a set as a sequence, in some order: read_dir promises none
RECURSIVE SetToSeq(_)
SetToSeq(S) ==
  IF S = {} THEN << >>
  ELSE LET x == CHOOSE y \in S : TRUE IN << x >> \o SetToSeq(S \ { x })

\* the place of mem m in the sorted sequence s: after every element that is
\* not greater (the sort is stable)
RECURSIVE InsertByPath(_, _)
InsertByPath(s, m) ==
  IF s = << >> THEN << m >>
  ELSE IF PathLess(m.path, Head(s).path) THEN << m >> \o s
  ELSE << Head(s) >> \o InsertByPath(Tail(s), m)

\* the sort with the paths compared as strings
RECURSIVE InsertByString(_, _)
InsertByString(s, m) ==
  IF s = << >> THEN << m >>
  ELSE IF StrLess(PathString(m.path), PathString(Head(s).path)) THEN << m >> \o s
  ELSE << Head(s) >> \o InsertByString(Tail(s), m)

RECURSIVE sort_by_string(_)
sort_by_string(s) ==
  IF s = << >> THEN << >>
  ELSE InsertByString(sort_by_string(SubSeq(s, 1, Len(s) - 1)), s[Len(s)])

\* mems.sort_by(|a, b| a.path.cmp(&b.path))
RECURSIVE sort_by_path(_)
sort_by_path(s) ==
  IF s = << >> THEN << >>
  ELSE InsertByPath(sort_by_path(SubSeq(s, 1, Len(s) - 1)), s[Len(s)])

\* the enumeration given up, with all it has gathered, at a file that does
\* not decode
RECURSIVE list_entries_abort(_, _, _)
list_entries_abort(f, entries, prefix) ==
  IF entries = << >> THEN << >>
  ELSE
    LET path == entries[Len(entries)]
        name_str == Last(path)
        front == list_entries_abort(f, SubSeq(entries, 1, Len(entries) - 1), prefix)
    IN  IF prefix = << >> /\ name_str = ArchiveName THEN front
        ELSE IF StartsWith(name_str, << "." >>) \/ EndsWith(name_str, DotTmp)
        THEN front
        ELSE IF is_dir(f, path)
        THEN front \o list_entries_abort(f, SetToSeq(read_dir(f, path)),
                                         Append(prefix, name_str))
        ELSE IF EndsWith(name_str, DotMd)
        THEN LET got == read_mem(f, Append(prefix, TrimEndMatches(name_str, DotMd)))
             IN  IF got.status = "ok" THEN Append(front, got.mem) ELSE << >>
        ELSE front

\* Storage::list_mems_in; entries is what is left of the directory to visit
RECURSIVE list_entries(_, _, _)
list_entries(f, entries, prefix) ==
  IF entries = << >> THEN << >>
  ELSE
    LET path == Head(entries)
        name_str == Last(path)
        rest == list_entries(f, Tail(entries), prefix)
    IN  IF prefix = << >> /\ name_str = ArchiveName THEN rest
        ELSE IF StartsWith(name_str, << "." >>) \/ EndsWith(name_str, DotTmp)
        THEN rest
        ELSE IF is_dir(f, path)
        THEN sort_by_path(
               list_entries(f, SetToSeq(read_dir(f, path)),
                            Append(prefix, name_str))) \o rest
        ELSE IF EndsWith(name_str, DotMd)
        THEN LET got == read_mem(f, Append(prefix, TrimEndMatches(name_str, DotMd)))
             IN  IF got.status = "ok" THEN << got.mem >> \o rest ELSE rest
        ELSE rest

list_mems_in(f, dir, prefix) ==
  IF ~is_dir(f, dir) THEN << >>
  ELSE sort_by_path(list_entries(f, SetToSeq(read_dir(f, dir)), prefix))

\* Storage::list_mems
list_mems(f) == list_mems_in(f, Root, << >>)

\* Storage::list_mems_under
list_mems_under(f, prefix) ==
  IF ~path_exists(f, prefix) THEN << >> ELSE list_mems_in(f, prefix, prefix)

PathsOf(mems) == [i \in 1..Len(mems) |-> mems[i].path]

(***************************************************************************)
(* The store used by one process: each step is one whole operation.        *)
(***************************************************************************)
SegA == << "a" >>
SegB == << "b" >>
SegC == << "c" >>
SegBMd == << "b", ".", "m", "d" >>

\* the logical paths the operations are called with
StorePaths ==
  { << SegC >>, << ArchiveName, SegC >>, << SegA, SegB >>,
    << SegA, SegB, SegC >>, << SegA, SegBMd, SegC >> }

\* the prefixes list_mems_under is called with; << >> is list_mems
ListPrefixes ==
  { << >>, << SegA >>, << SegA, SegB >>, << ArchiveName >>, << SegC >> }

\* the documents that are written, less their path
StoreMems ==
  { [path |-> << >>, title |-> << "x" >>, created_at |-> 3, updated_at |-> 3,
     tags |-> << >>, content |-> << "x", NL, "-", "-", "-", NL, "y" >>],
    [path |-> << >>, title |-> << "-", "-", "-" >>, created_at |-> 3,
     updated_at |-> 15, tags |-> << << "y" >>, << "y" >> >>,
     content |-> << NL, "z" >>] }

Rands == 0..(MaxRand - 1)

\* Storage::init, and the tests' setup_storage
FreshStore == [dirs |-> { Root, << ArchiveName >> }, files |-> << >>]

NoLast ==
  [op |-> "init", path |-> << >>, status |-> "", mem |-> NoMem, listing |-> << >>]

Init ==
  /\ fs = FreshStore
  /\ last = NoLast
  /\ ops = 0
  /\ wr = << >>
  /\ rd = << >>
  /\ committed = << >>
  /\ cx = CodecIdle
  /\ data = << >>
  /\ pr = << >>
  /\ named = << >>

Write(p, m, r) ==
  LET mem == [m EXCEPT !.path = p]
      res == write_mem(fs, mem, r)
  IN  /\ ops < MaxOps
      /\ fs' = res.fs
      /\ last' = [NoLast EXCEPT !.op = "write", !.path = p,
                                !.status = res.status, !.mem = mem]
      /\ ops' = ops + 1
      /\ UNCHANGED <<wr, rd, committed, cx, data, pr, named>>

Delete(p) ==
  LET res == delete_mem(fs, p)
  IN  /\ ops < MaxOps
      /\ fs' = res.fs
      /\ last' = [NoLast EXCEPT !.op = "delete", !.path = p, !.status = res.status]
      /\ ops' = ops + 1
      /\ UNCHANGED <<wr, rd, committed, cx, data, pr, named>>

Archive(p) ==
  LET res == archive_mem(fs, p)
  IN  /\ ops < MaxOps
      /\ fs' = res.fs
      /\ last' = [NoLast EXCEPT !.op = "archive", !.path = p, !.status = res.status]
      /\ ops' = ops + 1
      /\ UNCHANGED <<wr, rd, committed, cx, data, pr, named>>

Read(p) ==
  LET res == read_mem(fs, p)
  IN  /\ ops < MaxOps
      /\ last' = [NoLast EXCEPT !.op = "read", !.path = p,
                                !.status = res.status, !.mem = res.mem]
      /\ ops' = ops + 1
      /\ UNCHANGED <<fs, wr, rd, committed, cx, data, pr, named>>

List(prefix) ==
  LET res == IF prefix = << >> THEN list_mems(fs) ELSE list_mems_under(fs, prefix)
  IN  /\ ops < MaxOps
      /\ last' = [NoLast EXCEPT !.op = "list", !.path = prefix, !.status = "ok",
                                !.listing = PathsOf(res)]
      /\ ops' = ops + 1
      /\ UNCHANGED <<fs, wr, rd, committed, cx, data, pr, named>>

Next ==
  \/ \E p \in StorePaths, m \in StoreMems, r \in Rands : Write(p, m, r)
  \/ \E p \in StorePaths : Delete(p)
  \/ \E p \in StorePaths : Archive(p)
  \/ \E p \in StorePaths : Read(p)
  \/ \E prefix \in ListPrefixes : List(prefix)

Spec == Init /\ [][Next]_vars

(***************************************************************************)
(* Properties of the store used by one process.                            *)
(***************************************************************************)
InLiveTree(p) == p # Root /\ ~IsPrefix(<< ArchiveName >>, p)

\* the files of live documents
LiveDocs(f) == { p \in DOMAIN f.files : InLiveTree(p) /\ EndsWith(Last(p), DotMd) }

SameDocument(m, n) ==
  /\ m.title = n.title
  /\ m.tags = n.tags
  /\ m.content = n.content
  /\ m.created_at = n.created_at
  /\ m.updated_at = n.updated_at

\* C3: once write_mem(d) has succeeded, read_mem(d.path) returns d's title,
\* tags, body and timestamps.
C3_WriteThenRead ==
  (last.op = "write" /\ last.status = "ok") =>
    /\ read_mem(fs, last.path).status = "ok"
    /\ SameDocument(read_mem(fs, last.path).mem, last.mem)

\* C5: a directory of the live tree exists if and only if it is a strict
\* prefix of the path of a live document.
C5_DirectoryCleanliness ==
  /\ \A d \in fs.dirs :
       InLiveTree(d) => \E p \in LiveDocs(fs) : IsStrictPrefix(d, p)
  /\ \A p \in LiveDocs(fs) : \A k \in 1..(Len(p) - 1) : SubSeq(p, 1, k) \in fs.dirs

\* the store directories strictly above file p, the root left out
Ancestors(p) == { SubSeq(p, 1, k) : k \in 1..(Len(p) - 1) }

\* file is all that directory d holds, directly or below
SoleOccupant(f, d, file) ==
  \A q \in f.dirs \cup DOMAIN f.files : IsStrictPrefix(d, q) => IsPrefix(q, file)

\* all that directory d holds is file, or is held by it when file is a
\* directory that is moved away
Emptied(f, d, file) ==
  \A q \in f.dirs \cup DOMAIN f.files :
    IsStrictPrefix(d, q) => (IsPrefix(q, file) \/ IsPrefix(file, q))

Did(op, status) == last'.op = op /\ last'.status = status /\ ops' = ops + 1

\* C6: after a successful delete_mem(p), exists(p) is false, every ancestor
\* directory that held nothing but p is removed, and every other ancestor
\* stays, as does the root.
C6_DeletePrunes ==
  [][Did("delete", "ok") =>
       LET file == mem_path(last'.path)
       IN  /\ ~exists(fs', last'.path)
           /\ \A d \in Ancestors(file) :
                /\ d \in fs.dirs
                /\ d \in fs'.dirs <=> ~SoleOccupant(fs, d, file)
           /\ Root \in fs'.dirs]_vars

C6_Witness ==
  /\ last.op = "delete" /\ last.status = "ok"
  /\ last.path = << SegA, SegB, SegC >>
  /\ << SegA, SegB >> \notin fs.dirs
  /\ << SegA >> \in fs.dirs

\* C7: the root directory always exists, and a directory that delete_mem or
\* archive_mem makes disappear is a directory below the root, strictly above
\* the removed file, that held nothing else (or, for archive_mem, is what the
\* rename itself moved).
C7_RootKept ==
  /\ [](Root \in fs.dirs)
  /\ [][(last'.op \in { "delete", "archive" } /\ ops' = ops + 1) =>
          LET file == mem_path(last'.path)
          IN  \A d \in fs.dirs \ fs'.dirs :
                \/ /\ d # Root
                   /\ IsStrictPrefix(d, file)
                   /\ Emptied(fs, d, file)
                \/ /\ last'.op = "archive"
                   /\ IsPrefix(file, d)]_vars

C7_Witness ==
  /\ last.op \in { "delete", "archive" } /\ last.status = "ok"
  /\ read_dir(fs, Root) = {}

\* C8: after a successful archive_mem(p) of a live document, exists(p) is
\* false, the file at the same relative path under archive/ decodes to the
\* document that was live at p, and the ancestors of that file exist.
C8_ArchivePost ==
  [][Did("archive", "ok") =>
       LET p == last'.path
           before == read_mem(fs, p)
           after == read_mem(fs', << ArchiveName >> \o p)
       IN  before.status = "ok" =>
             /\ ~exists(fs', p)
             /\ after.status = "ok"
             /\ SameDocument(after.mem, before.mem)
             /\ Ancestors(<< ArchiveName >> \o mem_path(p)) \subseteq fs'.dirs]_vars

C8_Witness ==
  /\ last.op = "archive" /\ last.status = "ok"
  /\ last.path = << SegA, SegB, SegC >>
  /\ << ArchiveName, SegA, SegB, SegC \o DotMd >> \in DOMAIN fs.files

\* C9: read_mem, delete_mem and archive_mem of a path at which no file exists
\* fail with not-found and leave the whole store as it was.
C9_NotFoundUntouched ==
  [][(last'.op \in { "read", "delete", "archive" } /\ ops' = ops + 1
      /\ mem_path(last'.path) \notin DOMAIN fs.files) =>
       (last'.status = "not found" /\ fs' = fs)]_vars

\* C9 where nothing at all, neither file nor directory, is at the path.
C9_NothingThere ==
  [][(last'.op \in { "read", "delete", "archive" } /\ ops' = ops + 1
      /\ ~path_exists(fs, mem_path(last'.path))) =>
       (last'.status = "not found" /\ fs' = fs)]_vars

IsSortedBy(s, Less(_, _)) ==
  \A i \in 1..Len(s) : \A j \in (i + 1)..Len(s) : ~Less(s[j], s[i])

PathStringLess(p, q) == StrLess(PathString(p), PathString(q))

\* no character of a segment of p orders below '/'
NoLowChar(p) ==
  \A i \in 1..Len(p) : \A k \in 1..Len(p[i]) : Ord(p[i][k]) > Ord("/")

\* C10 as claimed: every listing is in ascending order of the path strings.
C10_StringOrder ==
  last.op = "list" => IsSortedBy(last.listing, PathStringLess)

\* C10: every listing is in ascending order of the paths compared segment by
\* segment, which is the order of the path strings when no segment has a
\* character below '/'.
C10_ListingOrder ==
  last.op = "list" =>
    /\ IsSortedBy(last.listing, PathLess)
    /\ (\A i \in 1..Len(last.listing) : NoLowChar(last.listing[i]))
         => IsSortedBy(last.listing, PathStringLess)

C10_Witness ==
  /\ last.op = "list"
  /\ \E i, j \in 1..Len(last.listing) :
       /\ i < j
       /\ last.listing[i] = << SegA, SegB, SegC >>
       /\ last.listing[j] = << SegA, SegBMd, SegC >>

\* the file behind the listed document p lies in the archive subtree
Archived(p) == IsPrefix(<< ArchiveName >>, mem_path(p))

\* C11: no listing, list_mems() or list_mems_under(prefix) for any prefix,
\* returns a document whose file lies under the archive subtree.
C11_NoArchivedListed ==
  last.op = "list" => \A i \in 1..Len(last.listing) : ~Archived(last.listing[i])

\* C11 for list_mems() and for every prefix that does not itself lead into the
\* archive subtree.
C11_LiveListings ==
  (last.op = "list" /\ ~IsPrefix(<< ArchiveName >>, last.path)) =>
    \A i \in 1..Len(last.listing) : ~Archived(last.listing[i])

\* the files under the archive subtree, with what they hold
ArchiveFiles(f) ==
  Restrict(f.files, { q \in DOMAIN f.files : IsPrefix(<< ArchiveName >>, q) })

\* the operation just done has left alone, and not seen, what is archived
ArchiveOutOfReach ==
  /\ last'.op # "archive" => ArchiveFiles(fs') = ArchiveFiles(fs)
  /\ last'.op = "archive" =>
       \A q \in DOMAIN ArchiveFiles(fs) \ { << ArchiveName >> \o mem_path(last'.path) } :
         q \in DOMAIN fs'.files /\ fs'.files[q] = fs.files[q]
  /\ (last'.op = "read" /\ last'.status = "ok") =>
       ~IsPrefix(<< ArchiveName >>, last'.path)

\* C21: no operation on any logical path sees, changes or removes a file
\* under the archive subtree; only archive_mem writes there, and only the
\* file it archives.
C21_ArchiveOutOfReach ==
  [][ops' = ops + 1 => ArchiveOutOfReach]_vars

\* C21 for the logical paths that do not begin with "archive".
C21_LivePathsOutOfReach ==
  [][(ops' = ops + 1 /\ ~IsPrefix(<< ArchiveName >>, last'.path)) =>
       ArchiveOutOfReach]_vars

(***************************************************************************)
(* Listing and reading a store whose files were also edited by hand: a     *)
(* file may hold a document, or a text that does not decode.               *)
(***************************************************************************)
\* the logical paths at which the store holds a file
ListingPaths ==
  { << SegC >>, << SegA, SegB >>, << SegA, SegB, SegC >>, << ArchiveName, SegC >> }

\* what a file holds: a document, or one of three texts that do not decode
\* (no header, a header that is not closed, a header without the fields)
ListingTexts ==
  { serialize([path |-> << >>, title |-> << "x" >>, created_at |-> 3,
               updated_at |-> 3, tags |-> << >>, content |-> << "y" >>]),
    << "x" >>,
    Dashes \o << NL >> \o KeyTitle \o << "x" >>,
    Dashes \o << NL, "x", NL >> \o Dashes \o << NL >> }

\* the store that holds the files of the function held, from logical paths
\* to texts, and the directories above them
StoreOf(held) ==
  [dirs |-> { Root, << ArchiveName >> }
              \cup UNION { Prefixes(Parent(mem_path(p))) : p \in DOMAIN held },
   files |-> [q \in { mem_path(p) : p \in DOMAIN held } |->
                held[CHOOSE p \in DOMAIN held : mem_path(p) = q]]]

ListingStores ==
  { StoreOf(held) : held \in UNION { [P -> ListingTexts] : P \in SUBSET ListingPaths } }

ListingInit ==
  /\ fs \in ListingStores
  /\ last = NoLast
  /\ ops = 0
  /\ wr = << >>
  /\ rd = << >>
  /\ committed = << >>
  /\ cx = CodecIdle
  /\ data = << >>
  /\ pr = << >>
  /\ named = << >>

ListingNext ==
  \/ \E prefix \in ListPrefixes : List(prefix)
  \/ \E p \in ListingPaths : Read(p)

SpecListing == ListingInit /\ [][ListingNext]_vars

\* the logical paths of the live documents of f whose file decodes
Decodable(f) ==
  { p \in ListingPaths :
      /\ mem_path(p) \in LiveDocs(f)
      /\ parse(p, f.files[mem_path(p)]).err = "" }

\* the live files of f that do not decode
Undecodable(f) ==
  { q \in LiveDocs(f) : parse(<< >>, f.files[q]).err # "" }

\* C12: whatever files fail to decode, list_mems() succeeds and returns the
\* decodable live documents, each once, and none of the undecodable ones.
C12_ListSkipsCorrupt ==
  (last.op = "list" /\ last.path = << >>) =>
    /\ last.status = "ok"
    /\ { last.listing[i] : i \in 1..Len(last.listing) } = Decodable(fs)
    /\ Len(last.listing) = Cardinality(Decodable(fs))

\* a listing of a store that holds both files that decode and files that do not
C12_Witness ==
  /\ last.op = "list" /\ last.path = << >>
  /\ Len(last.listing) >= 1
  /\ Cardinality(Undecodable(fs)) >= 2

(***************************************************************************)
(* The commands (src/src/main.rs).  An Option is a sequence: << >> is None *)
(* and << v >> is Some(v).  The instant Utc::now() returns and the text on *)
(* standard input are inputs of a command.                                 *)
(***************************************************************************)
\* Mem::new
new(path, title, content, now) ==
  [path |-> path, title |-> title, created_at |-> now, updated_at |-> now,
   tags |-> << >>, content |-> content]

\* Mem::with_tags
with_tags(mem, tags) == [mem EXCEPT !.tags = tags]

\* Mem::touch
touch(mem, now) == [mem EXCEPT !.updated_at = now]

\* str::replace(['-', '_'], " ")
replace_dashes(s) ==
  [i \in 1..Len(s) |-> IF s[i] \in { "-", "_" } THEN " " ELSE s[i]]

\* str::trim
RECURSIVE trim(_)
trim(s) ==
  IF s # << >> /\ Head(s) = " " THEN trim(Tail(s))
  ELSE IF s # << >> /\ s[Len(s)] = " " THEN trim(SubSeq(s, 1, Len(s) - 1))
  ELSE s

\* t.split(',').map(|s| s.trim().to_string()).collect()
RECURSIVE split_tags(_)
split_tags(t) ==
  LET i == Find(t, << "," >>)
  IN  IF i = 0 THEN << trim(t) >>
      ELSE << trim(SubSeq(t, 1, i - 1)) >> \o split_tags(SubSeq(t, i + 1, Len(t)))

\* cmd_add with the test for an existing document left out
cmd_add_unguarded(f, path, content, title, tags, force, stdin, now, rand) ==
  IF content = << >> /\ stdin = << >> THEN [status |-> "no content", fs |-> f]
  ELSE
    LET body == IF content # << >> THEN content[1] ELSE stdin
        name == IF title # << >> THEN title[1] ELSE replace_dashes(Last(path))
        labels == IF tags # << >> THEN split_tags(tags[1]) ELSE << >>
    IN  write_mem(f, with_tags(new(path, name, body, now), labels), rand)

\* cmd_add
cmd_add(f, path, content, title, tags, force, stdin, now, rand) ==
  IF exists(f, path) /\ ~force THEN [status |-> "already exists", fs |-> f]
  ELSE IF content = << >> /\ stdin = << >> THEN [status |-> "no content", fs |-> f]
  ELSE
    LET body == IF content # << >> THEN content[1] ELSE stdin
        name == IF title # << >> THEN title[1] ELSE replace_dashes(Last(path))
        labels == IF tags # << >> THEN split_tags(tags[1]) ELSE << >>
    IN  write_mem(f, with_tags(new(path, name, body, now), labels), rand)

\* cmd_edit that writes every field, given or not
edit_fields_all(mem, content, title, tags) ==
  [mem EXCEPT !.content = IF content # << >> THEN content[1] ELSE << >>,
              !.title = IF title # << >> THEN title[1] ELSE << >>,
              !.tags = IF tags # << >> THEN split_tags(tags[1]) ELSE << >>]

\* cmd_edit: the fields given on the command line replace the document's
edit_fields(mem, content, title, tags) ==
  [mem EXCEPT !.content = IF content # << >> THEN content[1] ELSE @,
              !.title = IF title # << >> THEN title[1] ELSE @,
              !.tags = IF tags # << >> THEN split_tags(tags[1]) ELSE @]

\* cmd_edit
cmd_edit(f, path, content, title, tags, now, rand) ==
  LET got == read_mem(f, path)
  IN  IF got.status # "ok" THEN [status |-> got.status, fs |-> f]
      ELSE write_mem(f, touch(edit_fields(got.mem, content, title, tags), now), rand)

\* cmd_rm
cmd_rm(f, path) == delete_mem(f, path)

\* cmd_archive
cmd_archive(f, path) == archive_mem(f, path)

\* the paths the commands are given
CliPaths == { << SegA, SegB >> }

\* the instants Utc::now() returns, in any order
Clock == 0..MaxClock

\* the arguments of add: -c, -t, --tags, and the text on standard input
CliAdds ==
  { [content |-> << << "x" >> >>, title |-> << >>, tags |-> << >>, stdin |-> << >>],
    [content |-> << >>, title |-> << >>, tags |-> << >>, stdin |-> << >>],
    [content |-> << >>, title |-> << << "y" >> >>,
     tags |-> << << "y", ",", " ", "w" >> >>, stdin |-> << "z" >>] }

\* -c of edit
CliEdits == { << >>, << << "z" >> >> }

\* -t of edit
CliTitles == { << >>, << << "y" >> >> }

\* --tags of edit
CliTags == { << >>, << << "y", ",", " ", "w" >> >> }

\* commands of one run
MaxCommands == MaxOps - 1

\* the value of rand_u32() in a command: run alone, a command leaves no
\* temporary file behind, whatever its name was
CliRand == CHOOSE r \in Rands : TRUE

NoCommand ==
  [op |-> "init", path |-> << >>, status |-> "", now |-> 0, force |-> FALSE,
   given |-> {}, body |-> << >>]

CliInit ==
  /\ fs = FreshStore
  /\ last = NoCommand
  /\ ops = 0
  /\ wr = << >>
  /\ rd = << >>
  /\ committed = << >>
  /\ cx = CodecIdle
  /\ data = << >>
  /\ pr = << >>
  /\ named = << >>

Add(p, a, force, now) ==
  LET res == cmd_add(fs, p, a.content, a.title, a.tags, force, a.stdin, now, CliRand)
  IN  /\ ops < MaxCommands
      /\ fs' = res.fs
      /\ last' = [NoCommand EXCEPT !.op = "add", !.path = p, !.status = res.status,
                                   !.now = now, !.force = force,
                                   !.body = IF a.content # << >> THEN a.content[1]
                                            ELSE a.stdin]
      /\ ops' = ops + 1
      /\ UNCHANGED <<wr, rd, committed, cx, data, pr, named>>

Edit(p, c, t, g, now) ==
  LET res == cmd_edit(fs, p, c, t, g, now, CliRand)
  IN  /\ ops < MaxCommands
      /\ fs' = res.fs
      /\ last' = [NoCommand EXCEPT
                     !.op = "edit", !.path = p, !.status = res.status, !.now = now,
                     !.given = (IF c # << >> THEN { "content" } ELSE {})
                               \cup (IF t # << >> THEN { "title" } ELSE {})
                               \cup (IF g # << >> THEN { "tags" } ELSE {})]
      /\ ops' = ops + 1
      /\ UNCHANGED <<wr, rd, committed, cx, data, pr, named>>

Rm(p) ==
  LET res == cmd_rm(fs, p)
  IN  /\ ops < MaxCommands
      /\ fs' = res.fs
      /\ last' = [NoCommand EXCEPT !.op = "rm", !.path = p, !.status = res.status]
      /\ ops' = ops + 1
      /\ UNCHANGED <<wr, rd, committed, cx, data, pr, named>>

ArchiveCmd(p) ==
  LET res == cmd_archive(fs, p)
  IN  /\ ops < MaxCommands
      /\ fs' = res.fs
      /\ last' = [NoCommand EXCEPT !.op = "archive", !.path = p,
                                   !.status = res.status]
      /\ ops' = ops + 1
      /\ UNCHANGED <<wr, rd, committed, cx, data, pr, named>>

CliNext ==
  \/ \E p \in CliPaths, a \in CliAdds, force \in BOOLEAN, now \in Clock :
        Add(p, a, force, now)
  \/ \E p \in CliPaths, c \in CliEdits, t \in CliTitles, g \in CliTags,
        now \in Clock :
        Edit(p, c, t, g, now)
  \/ \E p \in CliPaths : Rm(p)
  \/ \E p \in CliPaths : ArchiveCmd(p)

SpecCli == CliInit /\ [][CliNext]_vars

(***************************************************************************)
(* Properties of the commands.                                             *)
(***************************************************************************)
\* a command has just run to the end with the given result
Ran(op, status) == ops' = ops + 1 /\ last'.op = op /\ last'.status = status

\* C13: an edit, a forced add and an archive of a stored document all leave
\* its created-at as it was; an edit sets updated-at to the current time, and
\* an edit that is given no field changes nothing but updated-at.
C13_TimestampLifecycle ==
  [][LET p == last'.path
         before == read_mem(fs, p)
         after == read_mem(fs', p)
         archived == read_mem(fs', << ArchiveName >> \o p)
     IN  before.status = "ok" =>
           /\ Ran("edit", "ok") =>
                /\ after.mem.created_at = before.mem.created_at
                /\ after.mem.updated_at = last'.now
                /\ last'.given = {} =>
                     /\ after.mem.title = before.mem.title
                     /\ after.mem.tags = before.mem.tags
                     /\ after.mem.content = before.mem.content
           /\ Ran("add", "ok") => after.mem.created_at = before.mem.created_at
           /\ Ran("archive", "ok") =>
                archived.mem.created_at = before.mem.created_at]_vars

\* C13 without the forced add: edit and archive keep created-at, and edit
\* sets updated-at to the current time.
C13_EditAndArchive ==
  [][LET p == last'.path
         before == read_mem(fs, p)
         after == read_mem(fs', p)
         archived == read_mem(fs', << ArchiveName >> \o p)
     IN  before.status = "ok" =>
           /\ Ran("edit", "ok") =>
                /\ after.mem.created_at = before.mem.created_at
                /\ after.mem.updated_at = last'.now
           /\ Ran("archive", "ok") =>
                archived.mem.created_at = before.mem.created_at]_vars

\* C14: every document of the store has updated-at >= created-at, whatever
\* instants the clock returned to the adds and edits that wrote it.
C14_UpdatedNotBeforeCreated ==
  \A p \in CliPaths :
    read_mem(fs, p).status = "ok" =>
      read_mem(fs, p).mem.updated_at >= read_mem(fs, p).mem.created_at

\* C14 for an add, and for an edit to which the clock returns an instant not
\* before the document's created-at.
C14_ClockNotBehind ==
  [][LET p == last'.path
         before == read_mem(fs, p)
         after == read_mem(fs', p)
     IN  /\ Ran("add", "ok") => after.mem.updated_at >= after.mem.created_at
         /\ (Ran("edit", "ok") /\ last'.now >= before.mem.created_at)
              => after.mem.updated_at >= after.mem.created_at]_vars

\* C18: an add without force on a path that holds a document fails with
\* already-exists and leaves the whole store as it was; an add with force,
\* given a body, succeeds, and the file at the path then holds that body.
C18_AddNeedsForce ==
  [][(ops' = ops + 1 /\ last'.op = "add"
      /\ read_mem(fs, last'.path).status = "ok") =>
       IF ~last'.force
       THEN last'.status = "already exists" /\ fs' = fs
       ELSE last'.body # << >> =>
              /\ last'.status = "ok"
              /\ read_mem(fs', last'.path).status = "ok"
              /\ mem_path(last'.path) \in DOMAIN fs'.files
              /\ EndsWith(fs'.files[mem_path(last'.path)],
                          << NL >> \o Dashes \o << NL >> \o last'.body)
              /\ read_mem(fs', last'.path).mem.content = last'.body]_vars

\* an add without force that was refused, the document still at its path
C18_Witness ==
  /\ last.op = "add" /\ ~last.force /\ last.status = "already exists"
  /\ last.body # << >>
  /\ read_mem(fs, last.path).status = "ok"
  /\ read_mem(fs, last.path).mem.content # last.body

\* the archive holds a document that was archived from logical path p
ArchivedAt(f, p) == (<< ArchiveName >> \o mem_path(p)) \in DOMAIN f.files

\* C22: an add without force on a logical path whose document is in the
\* archive creates nothing: it fails, and the store is as it was.
C22_NoAddOverArchived ==
  [][(ops' = ops + 1 /\ last'.op = "add" /\ ~last'.force
      /\ ArchivedAt(fs, last'.path)) =>
       (last'.status # "ok" /\ fs' = fs)]_vars

\* C22: an add without force, given a body, on a logical path whose
\* document is in the archive is refused when, and only when, something is
\* at the live path; otherwise it creates the document at the live path and
\* the archived file stays as it is.
C22_AddLooksAtLiveTree ==
  [][(ops' = ops + 1 /\ last'.op = "add" /\ ~last'.force
      /\ ArchivedAt(fs, last'.path) /\ last'.body # << >>) =>
       IF path_exists(fs, mem_path(last'.path))
       THEN last'.status = "already exists" /\ fs' = fs
       ELSE /\ last'.status = "ok"
            /\ read_mem(fs', last'.path).status = "ok"
            /\ ArchiveFiles(fs') = ArchiveFiles(fs)]_vars

\* a document was added, without force, at the logical path of an archived
\* one: both are now in the store
C22_Witness ==
  /\ last.op = "add" /\ ~last.force /\ last.status = "ok"
  /\ ArchivedAt(fs, last.path)
  /\ read_mem(fs, last.path).status = "ok"

(***************************************************************************)
(* The store used by several processes: write_mem and read_mem advance one *)
(* system call at a time.  Here fs.files maps a file to its inode and data *)
(* maps an inode to its contents, so that a rename moves an inode and an   *)
(* open file keeps its inode whatever happens to its name.                 *)
(***************************************************************************)
\* the processes that write
WriterIds == { 1 }

\* the logical path the processes write and read
AtomicPaths == { << SegA, SegB >> }

NoInode == 0

WriterIdle ==
  [pc |-> "idle", path |-> << >>, content |-> << >>, rand |-> 0,
   fd |-> NoInode, off |-> 0, status |-> "none"]

ReaderIdle ==
  [pc |-> "idle", path |-> << >>, status |-> "none", seen |-> << >>,
   written |-> FALSE, during |-> {}]

\* the contents of the file at path p, or "absent"
ContentAt(f, d, p) == IF p \in DOMAIN f.files THEN d[f.files[p]] ELSE << "absent" >>

\* the inodes that a name or an open file descriptor still refers to
Referenced(f, w) ==
  { f.files[p] : p \in DOMAIN f.files } \cup { w[i].fd : i \in DOMAIN w }

Collect(d, f, w) == [i \in DOMAIN d \cap Referenced(f, w) |-> d[i]]

FreeInode(d) == CHOOSE i \in 1..(Cardinality(DOMAIN d) + 1) : i \notin DOMAIN d

\* write(2) of chunk at offset off into a file that holds old
PWrite(old, off, chunk) ==
  [i \in 1..(IF Len(old) > off + Len(chunk) THEN Len(old) ELSE off + Len(chunk)) |->
     IF i > off /\ i <= off + Len(chunk) THEN chunk[i - off]
     ELSE IF i <= Len(old) THEN old[i] ELSE "\\0"]

\* the end of the next chunk of a content of length n, after off
ChunkEnd(n, off) ==
  LET size == (n + MaxChunks - 1) \div MaxChunks
  IN  IF off + size > n THEN n ELSE off + size

AtomicInit ==
  /\ fs = FreshStore
  /\ data = << >>
  /\ wr = [w \in WriterIds |-> WriterIdle]
  /\ rd = ReaderIdle
  /\ committed = [p \in AtomicPaths |-> {}]
  /\ ops = 0
  /\ last = NoLast
  /\ cx = CodecIdle
  /\ pr = << >>
  /\ named = << >>

Finish(w, status) ==
  wr' = [wr EXCEPT ![w] = [@ EXCEPT !.pc = "idle", !.fd = NoInode, !.status = status]]

\* write_mem, up to the call of write_atomic
WriteBegin(w, p, m, r) ==
  /\ wr[w].pc = "idle"
  /\ wr' = [wr EXCEPT ![w] =
              [WriterIdle EXCEPT !.pc = "mkdir", !.path = p, !.rand = r,
                                 !.content = serialize([m EXCEPT !.path = p]),
                                 !.status = "running"]]
  /\ UNCHANGED <<fs, data, rd, committed, ops, last, cx, pr, named>>

\* write_atomic: the parent directories
WriteMkdir(w) ==
  LET parent == Parent(mem_path(wr[w].path))
      made == create_dir_all(fs, parent)
  IN  /\ wr[w].pc = "mkdir"
      /\ IF path_exists(fs, parent)
         THEN wr' = [wr EXCEPT ![w].pc = "create"] /\ fs' = fs
         ELSE IF made.ok
         THEN wr' = [wr EXCEPT ![w].pc = "create"] /\ fs' = made.fs
         ELSE Finish(w, "failed") /\ fs' = fs
      /\ UNCHANGED <<data, rd, committed, ops, last, cx, pr, named>>

\* File::create with the rename done at once, before anything is written
WriteCreateRenamed(w) ==
  LET path == mem_path(wr[w].path)
      temp == temp_path(path, wr[w].rand)
      inode == FreeInode(data)
      created == create_file(fs, temp, inode)
  IN  /\ wr[w].pc = "create"
      /\ IF created.ok
         THEN /\ fs' = rename(created.fs, temp, path).fs
              /\ data' = [i \in DOMAIN data \cup { inode } |->
                            IF i = inode THEN << >> ELSE data[i]]
              /\ wr' = [wr EXCEPT ![w].pc = "write", ![w].fd = inode, ![w].off = 0]
         ELSE Finish(w, "failed") /\ UNCHANGED <<fs, data>>
      /\ UNCHANGED <<rd, committed, ops, last, cx, pr, named>>

\* write_atomic: File::create(&temp_path)
WriteCreate(w) ==
  LET temp == temp_path(mem_path(wr[w].path), wr[w].rand)
      inode == IF temp \in DOMAIN fs.files THEN fs.files[temp] ELSE FreeInode(data)
      created == create_file(fs, temp, inode)
  IN  /\ wr[w].pc = "create"
      /\ IF created.ok
         THEN /\ fs' = created.fs
              /\ data' = [i \in DOMAIN data \cup { inode } |->
                            IF i = inode THEN << >> ELSE data[i]]
              /\ wr' = [wr EXCEPT ![w].pc = "write", ![w].fd = inode, ![w].off = 0]
         ELSE Finish(w, "failed") /\ UNCHANGED <<fs, data>>
      /\ UNCHANGED <<rd, committed, ops, last, cx, pr, named>>

\* write_atomic: file.write_all, one write(2) at a time
WriteChunk(w) ==
  LET content == wr[w].content
      end == ChunkEnd(Len(content), wr[w].off)
      chunk == SubSeq(content, wr[w].off + 1, end)
  IN  /\ wr[w].pc = "write"
      /\ data' = [data EXCEPT ![wr[w].fd] = PWrite(@, wr[w].off, chunk)]
      /\ wr' = [wr EXCEPT ![w].off = end,
                          ![w].pc = IF end = Len(content) THEN "sync" ELSE "write"]
      /\ UNCHANGED <<fs, rd, committed, ops, last, cx, pr, named>>

\* write_atomic: file.sync_all and drop(file)
WriteSync(w) ==
  /\ wr[w].pc = "sync"
  /\ wr' = [wr EXCEPT ![w].pc = "rename", ![w].fd = NoInode]
  /\ data' = Collect(data, fs, wr')
  /\ UNCHANGED <<fs, rd, committed, ops, last, cx, pr, named>>

\* write_atomic: fs::rename(&temp_path, path)
WriteRename(w) ==
  LET path == mem_path(wr[w].path)
      renamed == rename(fs, temp_path(path, wr[w].rand), path)
  IN  /\ wr[w].pc = "rename"
      /\ fs' = renamed.fs
      /\ Finish(w, IF renamed.ok THEN "ok" ELSE "failed")
      /\ data' = Collect(data, fs', wr')
      /\ committed' =
           IF renamed.ok
           THEN [committed EXCEPT ![wr[w].path] = @ \cup { wr[w].content }]
           ELSE committed
      /\ UNCHANGED <<rd, ops, last, cx, pr, named>>

\* the process is killed, or the step it is at fails with an I/O error
WriteInterrupt(w) ==
  /\ wr[w].pc \in { "mkdir", "create", "write", "sync", "rename" }
  /\ Finish(w, "failed")
  /\ data' = Collect(data, fs, wr')
  /\ UNCHANGED <<fs, rd, committed, ops, last, cx, pr, named>>

\* read_mem: file_path.exists()
ReadExists(p) ==
  /\ rd.pc \in { "idle", "done" }
  /\ rd' = IF path_exists(fs, mem_path(p))
           THEN [ReaderIdle EXCEPT !.pc = "read", !.path = p]
           ELSE [ReaderIdle EXCEPT !.pc = "done", !.path = p, !.status = "not found",
                                   !.written = committed[p] # {}]
  /\ UNCHANGED <<fs, data, wr, committed, ops, last, cx, pr, named>>

\* read_mem: fs::read_to_string and Mem::parse
ReadContent ==
  LET file_path == mem_path(rd.path)
      content == ContentAt(fs, data, file_path)
  IN  /\ rd.pc = "read"
      /\ rd' = IF file_path \notin DOMAIN fs.files
               THEN [rd EXCEPT !.pc = "done", !.status = "io error",
                               !.written = committed[rd.path] # {}]
               ELSE [rd EXCEPT !.pc = "done", !.seen = content,
                               !.during = { wr[w].pc : w \in DOMAIN wr } \cap { "write" },
                               !.status = IF parse(rd.path, content).err = ""
                                          THEN "ok" ELSE "corrupt"]
      /\ UNCHANGED <<fs, data, wr, committed, ops, last, cx, pr, named>>

Writer(w) ==
  \/ \E p \in AtomicPaths, m \in StoreMems, r \in Rands : WriteBegin(w, p, m, r)
  \/ WriteMkdir(w)
  \/ WriteCreate(w)
  \/ WriteChunk(w)
  \/ WriteSync(w)
  \/ WriteRename(w)
  \/ WriteInterrupt(w)

Reader == (\E p \in AtomicPaths : ReadExists(p)) \/ ReadContent

\* the writers and one reader
AtomicNext == (\E w \in WriterIds : Writer(w)) \/ Reader

SpecAtomic == AtomicInit /\ [][AtomicNext]_vars

\* C1: what a reader gets of a path is always the whole content of one
\* write_mem that has been committed to it, never an empty, partial or mixed
\* file, and a path that has been written is never found absent.
C1_AtomicReplace ==
  /\ rd.pc = "done" =>
       \/ rd.status = "ok" /\ rd.seen \in committed[rd.path]
       \/ rd.status = "not found" /\ ~rd.written
  /\ \A p \in AtomicPaths :
       /\ mem_path(p) \in DOMAIN fs.files =>
            ContentAt(fs, data, mem_path(p)) \in committed[p]
       /\ committed[p] # {} => mem_path(p) \in DOMAIN fs.files

\* a read of a committed document made while a write_mem of another
\* content to the same path had its temporary file half written
C1_Witness ==
  /\ rd.pc = "done" /\ rd.status = "ok"
  /\ "write" \in rd.during
  /\ wr[1].pc = "write" /\ wr[1].path = rd.path
  /\ wr[1].off > 0
  /\ wr[1].content # rd.seen

\* C2: the file at the target path changes only in the step in which a
\* rename succeeds, and then to the whole new content; a write_mem that is
\* interrupted or fails at any step leaves it as it was.
C2_CrashSafe ==
  [][\A w \in WriterIds : \A p \in AtomicPaths :
       LET before == ContentAt(fs, data, mem_path(p))
           after == ContentAt(fs', data', mem_path(p))
       IN  /\ (wr[w].pc # "idle" /\ wr'[w].status = "failed") => after = before
           /\ after # before =>
                \E v \in WriterIds :
                  /\ wr[v].pc = "rename" /\ wr[v].path = p /\ wr'[v].status = "ok"
                  /\ after = wr[v].content]_vars

\* a write_mem over a committed document that was cut short after its
\* temporary file had been written in part
C2_Witness ==
  /\ wr[1].pc = "idle" /\ wr[1].status = "failed"
  /\ committed[wr[1].path] # {}
  /\ \E t \in DOMAIN fs.files :
       /\ EndsWith(Last(t), DotTmp)
       /\ data[fs.files[t]] # << >>
       /\ data[fs.files[t]] \notin committed[wr[1].path]

(***************************************************************************)
(* Two processes that write different paths, and a reader.  The first      *)
(* writes a/b; the second writes a path in the same directory, in another  *)
(* directory, or below a directory that bears the name of the first's file.*)
(***************************************************************************)
ConcurrentIds == { 1, 2 }

FirstPath == << SegA, SegB >>

SecondPaths == { << SegA, SegC >>, << SegC >>, << SegA, SegBMd, SegC >> }

ConcurrentPaths == { FirstPath } \cup SecondPaths

ConcurrentInit ==
  /\ fs = FreshStore
  /\ data = << >>
  /\ wr = [w \in ConcurrentIds |-> WriterIdle]
  /\ rd = ReaderIdle
  /\ committed = [p \in ConcurrentPaths |-> {}]
  /\ ops = 0
  /\ last = NoLast
  /\ cx = CodecIdle
  /\ pr = << >>
  /\ named = << >>

\* a process keeps to the path it has begun to write
KeepsPath(w, p) ==
  /\ wr[w].path \in { << >>, p }
  /\ IF w = 1 THEN p = FirstPath ELSE p \in SecondPaths

\* the document a process writes, again and again
DocOf(w) == SetToSeq(StoreMems)[w]

ConcurrentWriter(w) ==
  \/ \E p \in ConcurrentPaths, r \in Rands :
       KeepsPath(w, p) /\ WriteBegin(w, p, DocOf(w), r)
  \/ WriteMkdir(w)
  \/ WriteCreate(w)
  \/ WriteChunk(w)
  \/ WriteSync(w)
  \/ WriteRename(w)

\* the reader reads the paths that are being written
ConcurrentReader ==
  \/ \E w \in ConcurrentIds : wr[w].path # << >> /\ ReadExists(wr[w].path)
  \/ ReadContent

ConcurrentNext == (\E w \in ConcurrentIds : ConcurrentWriter(w)) \/ ConcurrentReader

SpecConcurrent == ConcurrentInit /\ [][ConcurrentNext]_vars

\* the file of one path is a directory above the file of the other
Clash(p, q) ==
  /\ p # << >> /\ q # << >>
  /\ \/ IsStrictPrefix(mem_path(p), mem_path(q))
     \/ IsStrictPrefix(mem_path(q), mem_path(p))

\* a write_mem that has returned Ok left its whole content at its path, and
\* no read returns anything but a whole committed content
NeverCorrupt ==
  /\ \A w \in ConcurrentIds :
       (wr[w].pc = "idle" /\ wr[w].status = "ok") =>
         ContentAt(fs, data, mem_path(wr[w].path)) = wr[w].content
  /\ \A p \in ConcurrentPaths :
       mem_path(p) \in DOMAIN fs.files =>
         ContentAt(fs, data, mem_path(p)) \in committed[p]
  /\ (rd.pc = "done" /\ rd.status \in { "ok", "corrupt" }) =>
       (rd.status = "ok" /\ rd.seen \in committed[rd.path])

\* C17: two write_mem calls on different paths both succeed, in every
\* interleaving, each leaving its own content at its path, and no read finds
\* a written path absent, unreadable or holding part of a content.
C17_BothSucceed ==
  /\ NeverCorrupt
  /\ \A w \in ConcurrentIds : wr[w].status # "failed"
  /\ rd.pc = "done" =>
       \/ rd.status = "ok"
       \/ rd.status = "not found" /\ ~rd.written

\* C17 for paths of which neither names a file that is a directory of the
\* other; when one does, a write_mem may fail, and still nothing is corrupted.
C17_DisjointWrites ==
  /\ NeverCorrupt
  /\ ~Clash(wr[1].path, wr[2].path) =>
       /\ \A w \in ConcurrentIds : wr[w].status # "failed"
       /\ rd.pc = "done" =>
            \/ rd.status = "ok"
            \/ rd.status = "not found" /\ ~rd.written

\* both have written, into the same directory, and a read of the one path
\* was made while the other was being written
C17_Witness ==
  /\ \A w \in ConcurrentIds : wr[w].pc = "idle" /\ wr[w].status = "ok"
  /\ wr[2].path = << SegA, SegC >>
  /\ \A w \in ConcurrentIds :
       ContentAt(fs, data, mem_path(wr[w].path)) = wr[w].content
  /\ rd.pc = "done" /\ rd.status = "ok" /\ "write" \in rd.during

(***************************************************************************)
(* delete_mem and archive_mem one system call at a time, beside a process  *)
(* that writes into the directories they clean up.                         *)
(***************************************************************************)
\* the document delete_mem and archive_mem are called on
MovedPath == << SegA, SegB, SegC >>

\* the paths write_mem is called with: beside the document, one level up,
\* and the document's own
MoverPaths == { << SegA, SegB, SegA >>, << SegA, SegC >>, MovedPath }

MoverIdle ==
  [pc |-> "idle", op |-> "none", path |-> << >>, dir |-> << >>, status |-> "none"]

\* a store that holds one document, at MovedPath
MoverStore ==
  [dirs |-> Prefixes(Parent(mem_path(MovedPath))) \cup { << ArchiveName >> },
   files |-> (mem_path(MovedPath) :> 1)]

MoverInit ==
  /\ fs = MoverStore
  /\ data = (1 :> serialize([DocOf(2) EXCEPT !.path = MovedPath]))
  /\ wr = [w \in WriterIds |-> WriterIdle]
  /\ pr = MoverIdle
  /\ rd = ReaderIdle
  /\ committed = [p \in MoverPaths |-> {}]
  /\ ops = 0
  /\ last = NoLast
  /\ cx = CodecIdle
  /\ named = << >>

MoveDone(status) == pr' = [pr EXCEPT !.pc = "idle", !.status = status]

\* delete_mem and archive_mem are entered
MoveBegin(op, p) ==
  /\ pr.pc = "idle"
  /\ pr' = [MoverIdle EXCEPT !.pc = "exists", !.op = op, !.path = p,
                             !.status = "running"]
  /\ UNCHANGED <<fs, data, wr, rd, committed, ops, last, cx, named>>

\* delete_mem, archive_mem: the test that the file exists
MoveExists ==
  /\ pr.pc = "exists"
  /\ IF path_exists(fs, mem_path(pr.path))
     THEN pr' = [pr EXCEPT !.pc = IF pr.op = "delete" THEN "remove" ELSE "mkdir"]
     ELSE MoveDone("not found")
  /\ UNCHANGED <<fs, data, wr, rd, committed, ops, last, cx, named>>

\* delete_mem: fs::remove_file
DeleteRemoveFile ==
  LET removed == remove_file(fs, mem_path(pr.path))
  IN  /\ pr.pc = "remove"
      /\ fs' = removed.fs
      /\ data' = Collect(data, fs', wr)
      /\ IF removed.ok
         THEN pr' = [pr EXCEPT !.pc = "check", !.dir = Parent(mem_path(pr.path))]
         ELSE MoveDone("io error")
      /\ UNCHANGED <<wr, rd, committed, ops, last, cx, named>>

\* archive_mem: fs::create_dir_all of the archive's directories
ArchiveMkdir ==
  LET made == create_dir_all(fs, Parent(<< ArchiveName >> \o mem_path(pr.path)))
  IN  /\ pr.pc = "mkdir"
      /\ fs' = made.fs
      /\ IF made.ok THEN pr' = [pr EXCEPT !.pc = "rename"] ELSE MoveDone("io error")
      /\ UNCHANGED <<data, wr, rd, committed, ops, last, cx, named>>

\* archive_mem as a copy, the source still to be removed
ArchiveCopy ==
  LET src == mem_path(pr.path)
      inode == FreeInode(data)
      copied == create_file(fs, << ArchiveName >> \o src, inode)
  IN  /\ pr.pc = "rename"
      /\ fs' = copied.fs
      /\ data' = IF copied.ok
                 THEN [i \in DOMAIN data \cup { inode } |->
                         IF i = inode THEN data[fs.files[src]] ELSE data[i]]
                 ELSE data
      /\ IF copied.ok THEN pr' = [pr EXCEPT !.pc = "remove"] ELSE MoveDone("io error")
      /\ UNCHANGED <<wr, rd, committed, ops, last, cx, named>>

\* archive_mem: fs::rename
ArchiveRename ==
  LET src == mem_path(pr.path)
      renamed == rename(fs, src, << ArchiveName >> \o src)
  IN  /\ pr.pc = "rename"
      /\ fs' = renamed.fs
      /\ data' = Collect(data, fs', wr)
      /\ IF renamed.ok
         THEN pr' = [pr EXCEPT !.pc = "check", !.dir = Parent(src)]
         ELSE MoveDone("io error")
      /\ UNCHANGED <<wr, rd, committed, ops, last, cx, named>>

\* the clean-up loop: the test for the root, and read_dir
PruneCheck ==
  /\ pr.pc = "check"
  /\ IF pr.dir # Root /\ is_dir(fs, pr.dir) /\ read_dir(fs, pr.dir) = {}
     THEN pr' = [pr EXCEPT !.pc = "rmdir"]
     ELSE MoveDone("ok")
  /\ UNCHANGED <<fs, data, wr, rd, committed, ops, last, cx, named>>

\* the clean-up loop: fs::remove_dir, its result dropped, and the step up
PruneRemoveDir ==
  /\ pr.pc = "rmdir"
  /\ fs' = remove_dir(fs, pr.dir).fs
  /\ data' = Collect(data, fs', wr)
  /\ pr' = [pr EXCEPT !.pc = "check", !.dir = Parent(pr.dir)]
  /\ UNCHANGED <<wr, rd, committed, ops, last, cx, named>>

Mover ==
  \/ \E op \in { "delete", "archive" } : MoveBegin(op, MovedPath)
  \/ MoveExists
  \/ DeleteRemoveFile
  \/ ArchiveMkdir
  \/ ArchiveRename
  \/ PruneCheck
  \/ PruneRemoveDir

MoverWriter(w) ==
  \/ \E p \in MoverPaths : WriteBegin(w, p, DocOf(1), CliRand)
  \/ WriteMkdir(w)
  \/ WriteCreate(w)
  \/ WriteChunk(w)
  \/ WriteSync(w)
  \/ WriteRename(w)

MoverNext == Mover \/ (\E w \in WriterIds : MoverWriter(w))

SpecMover == MoverInit /\ [][MoverNext]_vars

\* the files that hold a document, whole: the name is a document's and the
\* contents are what write_mem was given
WholeDocument(f, d, q) ==
  \E p \in MoverPaths :
    /\ q \in { mem_path(p), << ArchiveName >> \o mem_path(p) }
    /\ d[f.files[q]] \in { serialize([DocOf(i) EXCEPT !.path = p]) : i \in 1..2 }

\* a step of the clean-up loop
PruneStep == pr.pc \in { "check", "rmdir" } /\ pr' # pr

\* C19: while write_mem runs into the same directories, (1) the clean-up
\* loop of delete_mem and archive_mem removes and alters no file at all, so
\* no written document; (2) a write_mem that ends with success leaves its
\* document at its path with the whole contents; (3) when both processes are
\* done every file of the store is a whole document, so that what may be
\* left over is at most an empty directory
C19_PruningBenign ==
  /\ [][/\ PruneStep =>
             /\ fs'.files = fs.files
             /\ \A q \in DOMAIN fs.files : data'[fs.files[q]] = data[fs.files[q]]
        /\ \A w \in WriterIds :
             (wr[w].pc = "rename" /\ wr'[w].pc = "idle" /\ wr'[w].status = "ok") =>
               ContentAt(fs', data', mem_path(wr[w].path)) = wr[w].content
        /\ ((\A w \in WriterIds : wr'[w].pc = "idle") /\ pr'.pc = "idle") =>
             \A q \in DOMAIN fs'.files : WholeDocument(fs', data', q)]_vars

\* the clean-up has removed the directory the writer was about to create its
\* file in: the write has failed, the delete has succeeded
C19_Witness ==
  /\ pr.pc = "idle" /\ pr.status = "ok"
  /\ wr[1].pc = "idle" /\ wr[1].status = "failed"
  /\ ~is_dir(fs, Parent(mem_path(wr[1].path)))

(***************************************************************************)
(* archive_mem one system call at a time, beside readers of the document   *)
(* at both its places and a writer of its neighbour.                       *)
(***************************************************************************)
\* the logical path that reads the archived document
ArchivedPath == << ArchiveName >> \o MovedPath

\* the document's neighbour in its directory
NeighbourPath == << SegA, SegB, SegA >>

ArchivePaths == { MovedPath, ArchivedPath, NeighbourPath }

\* the bytes of the document the store holds at first
MovedBytes == serialize([DocOf(2) EXCEPT !.path = MovedPath])

ArchiveInit ==
  /\ fs = MoverStore
  /\ data = (1 :> MovedBytes)
  /\ wr = [w \in WriterIds |-> WriterIdle]
  /\ pr = MoverIdle
  /\ rd = ReaderIdle
  /\ committed = [p \in ArchivePaths |-> IF p = MovedPath THEN { MovedBytes } ELSE {}]
  /\ ops = 0
  /\ last = NoLast
  /\ cx = CodecIdle
  /\ named = << >>

Archiver ==
  \/ MoveBegin("archive", MovedPath)
  \/ MoveExists
  \/ ArchiveMkdir
  \/ ArchiveRename
  \/ PruneCheck
  \/ PruneRemoveDir

ArchiveReader ==
  \/ \E p \in { MovedPath, ArchivedPath } : ReadExists(p)
  \/ ReadContent

ArchiveWriter(w) ==
  \/ WriteBegin(w, NeighbourPath, DocOf(1), CliRand)
  \/ WriteMkdir(w)
  \/ WriteCreate(w)
  \/ WriteChunk(w)
  \/ WriteSync(w)
  \/ WriteRename(w)

ArchiveNext == Archiver \/ ArchiveReader \/ (\E w \in WriterIds : ArchiveWriter(w))

SpecArchive == ArchiveInit /\ [][ArchiveNext]_vars

\* the places of the store that hold the document's bytes
PlacesOf(f, d) ==
  { q \in { mem_path(MovedPath), mem_path(ArchivedPath) } :
      q \in DOMAIN f.files /\ d[f.files[q]] = MovedBytes }

\* C20: at every point, whatever the readers and the archive are at, the
\* document is at exactly one of its live and its archive place, never at
\* both and never at neither; the move is one step, the rename, which takes
\* the very file across, and no step writes its bytes again
C20_ArchiveAtomicMove ==
  /\ [](Cardinality(PlacesOf(fs, data)) = 1)
  /\ [][/\ \A q \in PlacesOf(fs, data) : \A q2 \in PlacesOf(fs', data') :
             /\ fs'.files[q2] = fs.files[q]
             /\ data'[fs'.files[q2]] = data[fs.files[q]]
        /\ PlacesOf(fs', data') # PlacesOf(fs, data) =>
             /\ pr.pc = "rename"
             /\ PlacesOf(fs, data) = { mem_path(MovedPath) }
             /\ PlacesOf(fs', data') = { mem_path(ArchivedPath) }]_vars

\* a reader has the document from the archive, whole, while archive_mem is
\* still at its clean-up
C20_Witness ==
  /\ pr.op = "archive" /\ pr.pc \in { "check", "rmdir" }
  /\ rd.pc = "done" /\ rd.path = ArchivedPath
  /\ rd.status = "ok" /\ rd.seen = MovedBytes
  /\ PlacesOf(fs, data) = { mem_path(ArchivedPath) }

(***************************************************************************)
(* The codec on its own: a document is chosen, encoded and decoded again.  *)
(***************************************************************************)
RECURSIVE SeqsUpTo(_, _)
SeqsUpTo(S, n) ==
  IF n = 0 THEN { << >> }
  ELSE LET shorter == SeqsUpTo(S, n - 1)
       IN  shorter \cup { Append(s, c) : s \in shorter, c \in S }

CodecTitles ==
  { << >>, << "x" >>, << " " >>, << "-", "-", "-" >>, << "x", NL, "-", "-", "-" >> }

CodecTags ==
  { << >>, << << "x" >> >>, << << "y" >>, << "x" >>, << "y" >> >>,
    << << "-", "-", "-" >>, << >> >> }

CodecTimes == { << 0, 0 >>, << 7, 12 >> }

CodecBodies == SeqsUpTo({ NL, "-", "x" }, MaxBody)

CodecMems ==
  { [path |-> << << "a" >> >>, title |-> t, created_at |-> ts[1],
     updated_at |-> ts[2], tags |-> g, content |-> b] :
      t \in CodecTitles, ts \in CodecTimes, g \in CodecTags, b \in CodecBodies }

CodecInit ==
  /\ cx \in { [pc |-> "new", mem |-> m, text |-> << >>, parsed |-> NoParse] :
                m \in CodecMems }
  /\ fs = FreshStore
  /\ last = NoLast
  /\ ops = 0
  /\ wr = << >>
  /\ rd = << >>
  /\ committed = << >>
  /\ data = << >>
  /\ pr = << >>
  /\ named = << >>

CodecEncode ==
  /\ cx.pc = "new"
  /\ cx' = [cx EXCEPT !.pc = "encoded", !.text = serialize(cx.mem)]
  /\ UNCHANGED <<fs, last, ops, wr, rd, committed, data, pr, named>>

CodecDecode ==
  /\ cx.pc = "encoded"
  /\ cx' = [cx EXCEPT !.pc = "decoded", !.parsed = parse(cx.mem.path, cx.text)]
  /\ UNCHANGED <<fs, last, ops, wr, rd, committed, data, pr, named>>

CodecNext == CodecEncode \/ CodecDecode

SpecCodec == CodecInit /\ [][CodecNext]_vars

\* C4: decoding the encoding of a document succeeds and gives back its title,
\* its tags, its body and its timestamps.
C4_RoundTrip ==
  cx.pc = "decoded" =>
    /\ cx.parsed.err = ""
    /\ cx.parsed.mem.title = cx.mem.title
    /\ cx.parsed.mem.tags = cx.mem.tags
    /\ cx.parsed.mem.content = cx.mem.content
    /\ cx.parsed.mem.created_at = cx.mem.created_at
    /\ cx.parsed.mem.updated_at = cx.mem.updated_at

\* The header and the timestamps alone round-trip, and so does every body
\* that does not begin with a newline.
C4_RoundTripButLeadingNewlines ==
  cx.pc = "decoded" =>
    /\ cx.parsed.err = ""
    /\ cx.parsed.mem.title = cx.mem.title
    /\ cx.parsed.mem.tags = cx.mem.tags
    /\ cx.parsed.mem.created_at = cx.mem.created_at
    /\ cx.parsed.mem.updated_at = cx.mem.updated_at
    /\ cx.parsed.mem.content = TrimStartMatches(cx.mem.content, NL)

(***************************************************************************)
(* The decoder on its own, on texts that were not written by the encoder:  *)
(* an opening, a header block, a closing and a body, each well formed or   *)
(* not.                                                                    *)
(***************************************************************************)
ParseOpenings == { Dashes \o << NL >>, Dashes, << "x", NL >>, << "-", "-", NL >>, << >> }

ParseHeaders ==
  LET title == KeyTitle \o << "x", NL >>
      created == KeyCreated \o TimestampText(3) \o << NL >>
      updated == KeyUpdated \o TimestampText(5) \o << NL >>
  IN  { title \o created \o updated, created \o updated, title \o updated,
        title \o created, << "x", NL >>, << >> }

ParseClosings ==
  { Dashes \o << NL >>, Dashes, Dashes \o << "x", NL >>, << "-", "-", NL >>,
    << " " >> \o Dashes \o << NL >>, << >> }

ParseBodies == { << >>, << "y" >>, << NL, "y" >>, << "y", NL >> \o Dashes \o << NL >> }

ParseTexts ==
  { o \o h \o c \o b :
      o \in ParseOpenings, h \in ParseHeaders, c \in ParseClosings, b \in ParseBodies }

ParseInit ==
  /\ cx \in { [pc |-> "encoded", mem |-> NoMem, text |-> t, parsed |-> NoParse] :
                t \in ParseTexts }
  /\ fs = FreshStore
  /\ last = NoLast
  /\ ops = 0
  /\ wr = << >>
  /\ rd = << >>
  /\ committed = << >>
  /\ data = << >>
  /\ pr = << >>
  /\ named = << >>

ParseNext == CodecDecode

SpecParse == ParseInit /\ [][ParseNext]_vars

\* the numbers of the lines of t, after the first, that are a closing '---'
ClosingLines(t) == { k \in 2..Len(Lines(t)) : Lines(t)[k] = Dashes }

\* what follows the opening marker, up to the first closing '---' line
HeaderBlock(t) ==
  LET k == CHOOSE j \in ClosingLines(t) : \A i \in ClosingLines(t) : j <= i
      ls == Lines(SubSeq(t, 4, Len(t)))
  IN  [i \in 1..(k - 1) |-> ls[i]]

LacksField(block) ==
  \E key \in { KeyTitle, KeyCreated, KeyUpdated } :
    \A i \in 1..Len(block) : ~StartsWith(block[i], key)

\* C15: a text that does not begin with '---' fails as header-missing, one
\* that does but has no closing '---' line fails as header-unterminated, one
\* whose header block lacks title, created-at or updated-at fails as invalid
\* metadata, and no failure returns a document.
C15_ErrorClasses ==
  cx.pc = "decoded" =>
    /\ ~StartsWith(cx.text, Dashes) => cx.parsed.err = "missing frontmatter"
    /\ (StartsWith(cx.text, Dashes) /\ ClosingLines(cx.text) = {})
         => cx.parsed.err = "no closing delimiter"
    /\ (StartsWith(cx.text, Dashes) /\ ClosingLines(cx.text) # {}
        /\ LacksField(HeaderBlock(cx.text)))
         => cx.parsed.err = "invalid frontmatter"
    /\ cx.parsed.err # "" => cx.parsed.mem = NoMem

\* C15 with the header closed by the first line that begins with '---',
\* whatever else that line holds.
C15_ClosedByPrefix ==
  cx.pc = "decoded" =>
    LET rest == SubSeq(cx.text, 4, Len(cx.text))
        closed == Find(rest, << NL >> \o Dashes) # 0
    IN  /\ ~StartsWith(cx.text, Dashes) => cx.parsed.err = "missing frontmatter"
        /\ (StartsWith(cx.text, Dashes) /\ ~closed)
             => cx.parsed.err = "no closing delimiter"
        /\ (StartsWith(cx.text, Dashes) /\ closed
            /\ LacksField(Lines(SubSeq(rest, 1, Find(rest, << NL >> \o Dashes) - 1))))
             => cx.parsed.err = "invalid frontmatter"
        /\ cx.parsed.err # "" => cx.parsed.mem = NoMem

\* the text of t after its first closing '---' line
AfterClosingLine(t) ==
  LET k == CHOOSE j \in ClosingLines(t) : \A i \in ClosingLines(t) : j <= i
      RECURSIVE Upto(_)
      Upto(n) == IF n = 0 THEN 0 ELSE Upto(n - 1) + Len(Lines(t)[n]) + 1
  IN  SubSeq(t, Upto(k) + 1, Len(t))

\* C16: the body Mem::parse returns is the text after the closing header
\* line, verbatim, or that text less one leading blank line.
C16_BodyVerbatim ==
  (cx.pc = "decoded" /\ cx.parsed.err = "" /\ ClosingLines(cx.text) # {}) =>
    LET after == AfterClosingLine(cx.text)
    IN  \/ cx.parsed.mem.content = after
        \/ after # << >> /\ Head(after) = NL /\ cx.parsed.mem.content = Tail(after)

\* C16 with every leading newline stripped: the body is the text after the
\* closing header line less all the newlines it begins with.
C16_BodyLessLeadingNewlines ==
  (cx.pc = "decoded" /\ cx.parsed.err = "" /\ ClosingLines(cx.text) # {}) =>
    cx.parsed.mem.content = TrimStartMatches(AfterClosingLine(cx.text), NL)

(***************************************************************************)
(* lint (src/src/main.rs, cmd_lint).  A finding is a record: the label of  *)
(* the store when several are scanned, the document's path, the kind, and  *)
(* for a broken link the target as written.                                *)
(***************************************************************************)
\* str::trim().is_empty()
is_blank(s) == \A i \in 1..Len(s) : s[i] \in { " ", NL }

\* cmd_lint, the search for the closing bracket: the position of the "]"
\* that brings the depth to zero, from position k on, or 0 when the line
\* ends before
RECURSIVE close_bracket(_, _, _)
close_bracket(line, k, depth) ==
  IF k > Len(line) THEN 0
  ELSE IF line[k] = "[" THEN close_bracket(line, k + 1, depth + 1)
  ELSE IF line[k] = "]"
       THEN IF depth = 1 THEN k ELSE close_bracket(line, k + 1, depth - 1)
  ELSE close_bracket(line, k + 1, depth)

\* cmd_lint, the search for ")": its position from k on, or 0
RECURSIVE close_paren(_, _)
close_paren(line, k) ==
  IF k > Len(line) THEN 0
  ELSE IF line[k] = ")" THEN k
  ELSE close_paren(line, k + 1)

\* the scanner that takes the first "(" anywhere after the label to open
\* the target
RECURSIVE scan_links_loose(_, _)
scan_links_loose(line, i) ==
  IF i > Len(line) THEN << >>
  ELSE IF line[i] # "[" THEN scan_links_loose(line, i + 1)
  ELSE
    LET j == close_bracket(line, i + 1, 1)
        open == Find(SubSeq(line, j + 1, Len(line)), << "(" >>)
        end == close_paren(line, j + open + 1)
    IN  IF j = 0 THEN << >>
        ELSE IF open = 0 THEN scan_links_loose(line, j + 1)
        ELSE IF end = 0 THEN << << >> >>
        ELSE << SubSeq(line, j + open + 1, end - 1) >>
             \o scan_links_loose(line, end + 1)

\* cmd_lint, the loop over the characters of a line from position i on: the
\* targets of the links it recognises, in order; a target that is not closed
\* is the empty string
RECURSIVE scan_links(_, _)
scan_links(line, i) ==
  IF i > Len(line) THEN << >>
  ELSE IF line[i] # "[" THEN scan_links(line, i + 1)
  ELSE
    LET j == close_bracket(line, i + 1, 1)
        end == close_paren(line, j + 2)
    IN  IF j = 0 THEN << >>
        ELSE IF j = Len(line) \/ line[j + 1] # "(" THEN scan_links(line, j + 1)
        ELSE IF end = 0 THEN << << >> >>
        ELSE << SubSeq(line, j + 2, end - 1) >> \o scan_links(line, end + 1)

\* the targets of all the links of a body, line by line
RECURSIVE links_of_lines(_)
links_of_lines(ls) ==
  IF ls = << >> THEN << >>
  ELSE scan_links(Head(ls), 1) \o links_of_lines(Tail(ls))

\* cmd_lint: link.ends_with(".md") && !link.starts_with("http")
is_checked(link) ==
  EndsWith(link, DotMd) /\ ~StartsWith(link, << "h", "t", "t", "p" >>)

\* a string as a logical path: its '/'-separated segments
RECURSIVE to_path(_)
to_path(s) ==
  IF Find(s, << "/" >>) = 0 THEN << s >>
  ELSE << SubSeq(s, 1, Find(s, << "/" >>) - 1) >>
       \o to_path(SubSeq(s, Find(s, << "/" >>) + 1, Len(s)))

\* cmd_lint: mem_dir.join(link.trim_end_matches(".md")), for a target that
\* is not absolute
link_path(path, link) == Parent(path) \o to_path(TrimEndMatches(link, DotMd))

\* cmd_lint: the findings for the links of one document
RECURSIVE link_issues(_, _, _, _)
link_issues(f, label, path, links) ==
  IF links = << >> THEN << >>
  ELSE (IF is_checked(Head(links)) /\ ~exists(f, link_path(path, Head(links)))
        THEN << [store |-> label, path |-> path, kind |-> "broken link",
                 link |-> Head(links)] >>
        ELSE << >>)
       \o link_issues(f, label, path, Tail(links))

\* cmd_lint: the findings for one document
mem_issues(f, label, mem) ==
  (IF is_blank(mem.title)
   THEN << [store |-> label, path |-> mem.path, kind |-> "empty title",
            link |-> << >>] >>
   ELSE << >>)
  \o (IF is_blank(mem.content)
      THEN << [store |-> label, path |-> mem.path, kind |-> "empty content",
               link |-> << >>] >>
      ELSE << >>)
  \o link_issues(f, label, mem.path, links_of_lines(Lines(mem.content)))

\* cmd_lint: the findings for the documents of one store, in listing order
RECURSIVE store_issues(_, _, _)
store_issues(f, label, mems) ==
  IF mems = << >> THEN << >>
  ELSE mem_issues(f, label, Head(mems)) \o store_issues(f, label, Tail(mems))

\* lint that gives up at the first finding
RECURSIVE first_issues(_, _)
first_issues(storages, multi) ==
  IF storages = << >> THEN << >>
  ELSE LET here == store_issues(Head(storages).fs,
                                IF multi THEN Head(storages).label ELSE << >>,
                                list_mems(Head(storages).fs))
       IN  IF here # << >> THEN << here[1] >>
           ELSE first_issues(Tail(storages), multi)

\* cmd_lint: the findings over the stores, one after the other
RECURSIVE all_issues(_, _)
all_issues(storages, multi) ==
  IF storages = << >> THEN << >>
  ELSE store_issues(Head(storages).fs,
                    IF multi THEN Head(storages).label ELSE << >>,
                    list_mems(Head(storages).fs))
       \o all_issues(Tail(storages), multi)

\* get_storages: the implicit store when no --dir is given, else the stores
\* named, in the order given; dirs holds the labels, known maps a label to
\* the store in that directory
get_storages(dirs, implicit, known) ==
  IF dirs = << >> THEN << [label |-> << >>, fs |-> implicit] >>
  ELSE [i \in 1..Len(dirs) |-> [label |-> dirs[i], fs |-> known[dirs[i]]]]

\* the outcome of cmd_lint given the findings
lint_outcome(issues) ==
  [status |-> IF issues = << >> THEN "ok" ELSE "lint failed", issues |-> issues]

\* cmd_lint
cmd_lint(dirs, implicit, known) ==
  IF \E i \in 1..Len(dirs) : dirs[i] \notin DOMAIN known
  THEN [status |-> "directory not found", issues |-> << >>]
  ELSE lint_outcome(all_issues(get_storages(dirs, implicit, known), Len(dirs) > 1))

(***************************************************************************)
(* lint over a store that documents are written to, and over stores named  *)
(* by --dir.                                                               *)
(***************************************************************************)
\* the logical paths documents are written at
LintPaths == { << SegA, SegB >>, << SegA, SegC >>, << SegA, SegBMd, SegC >> }

\* the targets of the links written
LintTargets ==
  { SegC \o DotMd, SegB \o DotMd, << "h", "t", "t", "p", "c" >> \o DotMd }

\* a body that is one link to target t
LinkTo(t) == << "[", "x", "]", "(" >> \o t \o << ")" >>

\* the bodies written: one link, no link, blank
LintBodies == { LinkTo(t) : t \in LintTargets } \cup { << "x" >>, << " " >> }

\* the directories --dir is given
DirLabels == { << "o" >>, << "p" >> }

\* a directory that does not exist
MissingDir == << "q" >>

\* what a store named by --dir holds: a document without findings, or one
\* whose link is broken
NamedStores ==
  { write_mem(FreshStore, new(<< SegC >>, << "x" >>, body, 0), CliRand).fs :
      body \in { << "x" >>, LinkTo(SegB \o DotMd) } }

\* the values of --dir
LintDirs ==
  { << >>, << << "o" >> >>, << << "o" >>, << "p" >> >>, << << "o" >>, MissingDir >> }

NoLint ==
  [op |-> "init", path |-> << >>, status |-> "", dirs |-> << >>, issues |-> << >>]

LintInit ==
  /\ fs = FreshStore
  /\ named \in [DirLabels -> NamedStores]
  /\ last = NoLint
  /\ ops = 0
  /\ wr = << >>
  /\ rd = << >>
  /\ committed = << >>
  /\ cx = CodecIdle
  /\ data = << >>
  /\ pr = << >>

\* a document is written to the implicit store
LintAdd(p, body) ==
  /\ fs' = write_mem(fs, new(p, << "x" >>, body, 0), CliRand).fs
  /\ last' = [NoLint EXCEPT !.op = "add", !.path = p,
                            !.status = write_mem(fs, new(p, << "x" >>, body, 0),
                                                 CliRand).status]
  /\ UNCHANGED <<ops, wr, rd, committed, cx, data, pr, named>>

\* mem lint, with the --dir arguments given
Lint(dirs) ==
  /\ last' = [NoLint EXCEPT !.op = "lint", !.dirs = dirs,
                            !.status = cmd_lint(dirs, fs, named).status,
                            !.issues = cmd_lint(dirs, fs, named).issues]
  /\ UNCHANGED <<fs, ops, wr, rd, committed, cx, data, pr, named>>

LintNext ==
  \/ \E p \in LintPaths, body \in LintBodies : LintAdd(p, body)
  \/ \E dirs \in LintDirs : Lint(dirs)

SpecLint == LintInit /\ [][LintNext]_vars

\* the findings of kind broken link that lint has for the document at p
BrokenLinks(p) ==
  { i \in DOMAIN last.issues :
      last.issues[i].path = p /\ last.issues[i].kind = "broken link" }

\* the target t without its suffix, relative to the directory of p
TargetOf(p, t) == Parent(p) \o << SubSeq(t, 1, Len(t) - Len(DotMd)) >>

\* what C23 says of the document at p, whose body is one link to t
OneLinkChecked(p, t) ==
  IF mem_path(TargetOf(p, t)) \in DOMAIN fs.files
  THEN BrokenLinks(p) = {}
  ELSE /\ Cardinality(BrokenLinks(p)) = 1
       /\ \A i \in BrokenLinks(p) : last.issues[i].link = t

\* C23: lint of the implicit store has, for every document whose body is one
\* link [x](t.md), exactly one broken-link finding, with the document's path
\* and the target as written, when no document is at t taken relative to the
\* document's directory, and none when one is.
C23_BrokenLinkDetection ==
  (last.op = "lint" /\ last.dirs = << >>) =>
    \A p \in LintPaths, t \in LintTargets :
      (read_mem(fs, p).status = "ok" /\ read_mem(fs, p).mem.content = LinkTo(t)) =>
        OneLinkChecked(p, t)

\* C23 for the targets that do not begin with "http", in stores where
\* nothing but a file is at the target's place.
C23_PlainTargets ==
  (last.op = "lint" /\ last.dirs = << >>) =>
    \A p \in LintPaths, t \in LintTargets :
      (/\ read_mem(fs, p).status = "ok"
       /\ read_mem(fs, p).mem.content = LinkTo(t)
       /\ ~StartsWith(t, << "h", "t", "t", "p" >>)
       /\ ~is_dir(fs, mem_path(TargetOf(p, t)))) =>
        OneLinkChecked(p, t)

\* the stores the last lint has scanned, with the label its findings carry
Scanned ==
  IF last.dirs = << >> THEN { [label |-> << >>, fs |-> fs] }
  ELSE { [label |-> IF Len(last.dirs) > 1 THEN last.dirs[i] ELSE << >>,
          fs |-> named[last.dirs[i]]] : i \in 1..Len(last.dirs) }

\* lint has a finding of the kind for the document at p of the store
HasFinding(label, p, kind) ==
  \E i \in DOMAIN last.issues :
    /\ last.issues[i].store = label
    /\ last.issues[i].path = p
    /\ last.issues[i].kind = kind

\* C24: a lint that has opened its stores fails when, and only when, it has
\* a finding; and it has the findings of all the documents of all the stores
\* it scans, not of the first alone: one for every blank body, one for every
\* link whose target is not there.
C24_LintOutcome ==
  (last.op = "lint" /\ last.status # "directory not found") =>
    /\ last.status \in { "ok", "lint failed" }
    /\ last.status = "lint failed" <=> last.issues # << >>
    /\ \A s \in Scanned : \A p \in LintPaths \cup { << SegC >> } :
         read_mem(s.fs, p).status = "ok" =>
           /\ is_blank(read_mem(s.fs, p).mem.content) <=>
                HasFinding(s.label, p, "empty content")
           /\ (\E t \in { SegC \o DotMd, SegB \o DotMd } :
                 /\ read_mem(s.fs, p).mem.content = LinkTo(t)
                 /\ ~path_exists(s.fs, mem_path(TargetOf(p, t)))) <=>
                HasFinding(s.label, p, "broken link")

\* a lint over two stores has failed with a finding from each
C24_Witness ==
  /\ last.op = "lint" /\ last.status = "lint failed"
  /\ Len(last.dirs) = 2
  /\ \A i \in 1..2 : HasFinding(last.dirs[i], << SegC >>, "broken link")

(***************************************************************************)
(* edit beside a document that no command is given the path of.            *)
(***************************************************************************)
\* the stores the commands start from: one document at c, and perhaps one
\* at a/b, tagged, whose body was written with a newline in front
EditStores ==
  { write_mem(FreshStore, new(<< SegC >>, << "x" >>, << "x" >>, 0), CliRand).fs,
    write_mem(write_mem(FreshStore, new(<< SegC >>, << "x" >>, << "x" >>, 0),
                        CliRand).fs,
              with_tags(new(<< SegA, SegB >>, << "x" >>, << NL, "x" >>, 0),
                        << << "x" >> >>),
              CliRand).fs }

EditInit ==
  /\ fs \in EditStores
  /\ last = NoCommand
  /\ ops = 0
  /\ wr = << >>
  /\ rd = << >>
  /\ committed = << >>
  /\ cx = CodecIdle
  /\ data = << >>
  /\ pr = << >>
  /\ named = << >>

EditNext ==
  \/ \E p \in CliPaths, c \in CliEdits, t \in CliTitles, g \in CliTags,
        now \in Clock :
        Edit(p, c, t, g, now)
  \/ \E p \in CliPaths : Rm(p)

SpecEdit == EditInit /\ [][EditNext]_vars

\* the field of the document is what the edit was given, when it was given
\* one, and what it was before, when not
FieldAfter(name, before, after, values) ==
  IF name \in last'.given THEN after \in values ELSE after = before

\* C25: an edit of a document replaces the fields it is given and no other:
\* body, title and tags not given, and created-at, read as before; updated-at
\* is the time of the edit; no other file of the store is touched.  An edit
\* of a path that holds nothing fails with not-found and leaves the store as
\* it was.
C25_EditSelective ==
  [][(ops' = ops + 1 /\ last'.op = "edit") =>
       LET p == last'.path
           before == read_mem(fs, p).mem
           after == read_mem(fs', p).mem
       IN  /\ ~path_exists(fs, mem_path(p)) =>
                (last'.status = "not found" /\ fs' = fs)
           /\ read_mem(fs, p).status = "ok" =>
                /\ last'.status = "ok"
                /\ read_mem(fs', p).status = "ok"
                /\ FieldAfter("content", before.content, after.content, { << "z" >> })
                /\ FieldAfter("title", before.title, after.title, { << "y" >> })
                /\ FieldAfter("tags", before.tags, after.tags,
                              { << << "y" >>, << "w" >> >> })
                /\ after.created_at = before.created_at
                /\ after.updated_at = last'.now
                /\ after.path = before.path
                /\ fs'.dirs = fs.dirs
                /\ DOMAIN fs'.files = DOMAIN fs.files
                /\ \A q \in DOMAIN fs.files \ { mem_path(p) } :
                     fs'.files[q] = fs.files[q]]_vars

\* an edit given a title only has gone through: body and tags are the old
\* ones, and the document at c is still there
C25_Witness ==
  /\ last.op = "edit" /\ last.status = "ok" /\ last.given = { "title" }
  /\ read_mem(fs, last.path).mem.title = << "y" >>
  /\ read_mem(fs, last.path).mem.content = << "x" >>
  /\ read_mem(fs, last.path).mem.tags = << << "x" >> >>
  /\ read_mem(fs, << SegC >>).status = "ok"

(***************************************************************************)
(* The commands that write, given --dir arguments (src/src/main.rs, main). *)
(***************************************************************************)
\* the commands that write, each with the arguments it is run with here
WriteCommands == { "add", "edit", "rm", "archive" }

\* main: the command is run on the store it is handed
write_command(cmd, f, path, now) ==
  CASE cmd = "add" ->
         cmd_add(f, path, << << "x" >> >>, << >>, << >>, TRUE, << >>, now, CliRand)
    [] cmd = "edit" ->
         cmd_edit(f, path, << >>, << << "y" >> >>, << >>, now, CliRand)
    [] cmd = "rm" -> cmd_rm(f, path)
    [] cmd = "archive" -> cmd_archive(f, path)

\* what main has done: the outcome of the command, run on the store found
\* from the working directory, and the stores named by --dir
outcome(res, known) ==
  [status |-> res.status, implicit |-> res.fs, known |-> known]

\* main that hands a writing command the first store named by --dir
main_write_named(cmd, dirs, implicit, known, path, now) ==
  LET on_named(res) ==
        [status |-> res.status, implicit |-> implicit,
         known |-> [known EXCEPT ![dirs[1]] = res.fs]]
  IN  IF dirs = << >>
      THEN outcome(write_command(cmd, implicit, path, now), known)
      ELSE on_named(write_command(cmd, known[dirs[1]], path, now))

\* main, for add, edit, rm and archive: cli.dirs is not passed on, the
\* command opens the store with Storage::find()
main_write(cmd, dirs, implicit, known, path, now) ==
  outcome(write_command(cmd, implicit, path, now), known)

\* the values of --dir given to the commands that write
WriteDirs == { << >>, << << "o" >> >>, << << "o" >>, << "p" >> >> }

DirsInit ==
  /\ fs = FreshStore
  /\ named \in [DirLabels -> NamedStores]
  /\ last = NoLint
  /\ ops = 0
  /\ wr = << >>
  /\ rd = << >>
  /\ committed = << >>
  /\ cx = CodecIdle
  /\ data = << >>
  /\ pr = << >>

\* mem add, edit, rm or archive, with the --dir arguments given
MainWrite(cmd, dirs, p, now) ==
  \E res \in { main_write(cmd, dirs, fs, named, p, now) } :
    /\ fs' = res.implicit
    /\ named' = res.known
    /\ last' = [NoLint EXCEPT !.op = cmd, !.path = p, !.dirs = dirs,
                              !.status = res.status]
    /\ UNCHANGED <<ops, wr, rd, committed, cx, data, pr>>

DirsNext ==
  \E cmd \in WriteCommands, dirs \in WriteDirs, now \in Clock :
    MainWrite(cmd, dirs, << SegC >>, now)

SpecDirs == DirsInit /\ [][DirsNext]_vars

\* C26: add, edit, rm and archive, whatever --dir arguments they are given,
\* leave every store named by --dir as it was, and do to the store found
\* from the working directory what they do when given none.
C26_WritesToImplicitStore ==
  [][(last' # last /\ last'.op \in WriteCommands) =>
       /\ named' = named
       /\ \A label \in DOMAIN named : named'[label] \in NamedStores
       /\ \E now \in Clock :
            /\ fs' = write_command(last'.op, fs, last'.path, now).fs
            /\ last'.status = write_command(last'.op, fs, last'.path, now).status]_vars

\* an add given two --dir arguments has written its document to the store
\* found from the working directory
C26_Witness ==
  /\ last.op = "add" /\ Len(last.dirs) = 2 /\ last.status = "ok"
  /\ last.path = << SegC >>
  /\ read_mem(fs, << SegC >>).status = "ok"
  /\ read_mem(fs, << SegC >>).mem.content = << "x" >>
  /\ \A label \in DOMAIN named : named[label] \in NamedStores

(***************************************************************************)
(* mem tree.                                                               *)
(***************************************************************************)
\* the connectors and indents of print_tree; the box-drawing characters are
\* written + (tee), L (corner), - (horizontal) and | (vertical)
Tee == << "+", "-", "-", " " >>
Corner == << "L", "-", "-", " " >>
Indent == << " ", " ", " ", " " >>
Bar == << "|", " ", " ", " " >>

DotMems == << ".", "m", "e", "m", "s" >>

\* one printed line, as its parts; store and at record the storage and the
\* level (print_tree's parent) the line was printed for
TreeLine(kind, store, at, prefix, connector, name, title) ==
  [kind |-> kind, store |-> store, at |-> at, prefix |-> prefix,
   connector |-> connector, name |-> name, title |-> title]

\* the strings of S in ascending byte order, as a BTreeSet iterates
RECURSIVE in_order(_)
in_order(S) ==
  IF S = {} THEN << >>
  ELSE LET x == CHOOSE y \in S : \A z \in S \ { y } : StrLess(y, z)
       IN  << x >> \o in_order(S \ { x })

\* cmd_tree: all_dirs, every directory above a listed document
all_dirs_of(mems) ==
  UNION { { PathString(SubSeq(mems[k].path, 1, i)) :
              i \in 1..(Len(mems[k].path) - 1) } : k \in 1..Len(mems) }

\* cmd_tree: tree.get(parent), the listed documents grouped under parent, in
\* the order of the listing
items_at(mems, parent) ==
  SelectSeq(mems, LAMBDA m : PathString(Parent(m.path)) = parent)

\* print_tree with every directory below parent taken for a subdirectory
subdirs_below(all_dirs, parent) ==
  in_order({ d \in all_dirs :
               parent = << >> \/ StartsWith(d, parent \o << "/" >>) })

\* print_tree: the direct subdirectories of parent
subdirs_at(all_dirs, parent) ==
  in_order({ d \in all_dirs :
               IF parent = << >> THEN Find(d, << "/" >>) = 0
               ELSE /\ StartsWith(d, parent \o << "/" >>)
                    /\ Len(to_path(SubSeq(d, Len(parent) + 2, Len(d)))) = 1 })

\* a connector that marks the first entry of a level
connector_first(idx, total) == IF idx = 1 THEN Corner ELSE Tee

\* print_tree: the connector of entry idx of total
connector_of(idx, total) == IF idx = total THEN Corner ELSE Tee

RECURSIVE print_tree(_, _, _, _, _, _)
RECURSIVE print_subdirs(_, _, _, _, _, _, _, _)

\* print_tree: the loop over the subdirectories, from the idx-th on
print_subdirs(store, mems, all_dirs, parent, prefix, subs, idx, total) ==
  IF idx > Len(subs) THEN << >>
  ELSE << TreeLine("dir", store, parent, prefix, connector_of(idx, total),
                   IF parent = << >> THEN subs[idx]
                   ELSE SubSeq(subs[idx], Len(parent) + 2, Len(subs[idx])),
                   << >>) >>
       \o print_tree(store, mems, all_dirs, subs[idx],
                     prefix \o (IF idx = total THEN Indent ELSE Bar), << >>)
       \o print_subdirs(store, mems, all_dirs, parent, prefix, subs, idx + 1, total)

\* print_tree
print_tree(store, mems, all_dirs, parent, prefix, root_name) ==
  LET lines(items, subs) ==
        (IF prefix = << >>
         THEN << TreeLine("root", store, << >>, << >>, << >>, root_name, << >>) >>
         ELSE << >>)
        \o print_subdirs(store, mems, all_dirs, parent, prefix, subs, 1,
                         Len(items) + Len(subs))
        \o [i \in 1..Len(items) |->
              TreeLine("doc", store, parent, prefix,
                       connector_of(Len(subs) + i, Len(items) + Len(subs)),
                       Last(items[i].path), items[i].title)]
  IN  lines(items_at(mems, parent), subdirs_at(all_dirs, parent))

BlankLine == TreeLine("blank", << >>, << >>, << >>, << >>, << >>, << >>)

NoMemsLine == TreeLine("none", << >>, << >>, << >>, << >>, << >>, << >>)

\* cmd_tree: what one storage is listed as
tree_mems(f, path) ==
  IF path = << >> THEN list_mems(f) ELSE list_mems_under(f, path[1])

\* cmd_tree: the loop over the storages, from the idx-th on
RECURSIVE tree_blocks(_, _, _, _)
tree_blocks(storages, path, multi, idx) ==
  IF idx > Len(storages) THEN << >>
  ELSE LET block(mems) ==
             IF mems = << >> THEN << >>
             ELSE (IF multi /\ idx > 1 THEN << BlankLine >> ELSE << >>)
                  \o print_tree(storages[idx].label, mems, all_dirs_of(mems),
                                << >>, << >>,
                                IF multi THEN storages[idx].label
                                ELSE IF path = << >> THEN DotMems
                                ELSE PathString(path[1]))
       IN  block(tree_mems(storages[idx].fs, path))
           \o tree_blocks(storages, path, multi, idx + 1)

\* the outcome of cmd_tree given what was printed for the storages
tree_outcome(out) ==
  [status |-> "ok", out |-> IF out = << >> THEN << NoMemsLine >> ELSE out]

\* cmd_tree
cmd_tree(path, dirs, implicit, known) ==
  IF \E i \in 1..Len(dirs) : dirs[i] \notin DOMAIN known
  THEN [status |-> "directory not found", out |-> << >>]
  ELSE tree_outcome(tree_blocks(get_storages(dirs, implicit, known), path,
                                Len(dirs) > 1, 1))

(***************************************************************************)
(* mem tree over a store that documents are written to, and over stores    *)
(* named by --dir.                                                         *)
(***************************************************************************)
SegADashB == << "a", "-", "b" >>

\* the logical paths documents are written at
TreePaths ==
  { << SegB >>, << SegA, SegB >>, << SegA, SegC >>, << SegA, SegB, SegC >>,
    << SegADashB, SegC >> }

\* the path argument of mem tree: none, or a
TreeArgs == { << >>, << << SegA >> >> }

\* the values of --dir
TreeDirs ==
  { << >>, << << "o" >> >>, << << "o" >>, << "p" >> >>, << << "o" >>, MissingDir >> }

NoTree ==
  [op |-> "init", path |-> << >>, status |-> "", dirs |-> << >>, out |-> << >>]

TreeInit ==
  /\ fs = FreshStore
  /\ named \in [DirLabels -> NamedStores]
  /\ last = NoTree
  /\ ops = 0
  /\ wr = << >>
  /\ rd = << >>
  /\ committed = << >>
  /\ cx = CodecIdle
  /\ data = << >>
  /\ pr = << >>

\* a document is written to the implicit store
TreeAdd(p) ==
  /\ \E res \in { write_mem(fs, new(p, << "x" >>, << "x" >>, 0), CliRand) } :
       /\ fs' = res.fs
       /\ last' = [NoTree EXCEPT !.op = "add", !.path = p, !.status = res.status]
  /\ UNCHANGED <<ops, wr, rd, committed, cx, data, pr, named>>

\* mem tree, with the path and the --dir arguments given
Tree(path, dirs) ==
  /\ \E res \in { cmd_tree(path, dirs, fs, named) } :
       last' = [NoTree EXCEPT !.op = "tree", !.path = path, !.dirs = dirs,
                              !.status = res.status, !.out = res.out]
  /\ UNCHANGED <<fs, ops, wr, rd, committed, cx, data, pr, named>>

TreeNext ==
  \/ \E p \in TreePaths : TreeAdd(p)
  \/ \E path \in TreeArgs, dirs \in TreeDirs : Tree(path, dirs)

SpecTree == TreeInit /\ [][TreeNext]_vars

\* the directories above the listed documents, as paths
DirsAbove(mems) ==
  UNION { { SubSeq(mems[k].path, 1, i) : i \in 1..(Len(mems[k].path) - 1) } :
            k \in 1..Len(mems) }

\* the entries printed for level P of the tree of storage st, in the order
\* they were printed
EntriesAt(st, P) ==
  SelectSeq(last.out,
            LAMBDA l : /\ l.kind \in { "dir", "doc" }
                       /\ l.store = st.label
                       /\ l.at = PathString(P))

\* level P of the tree printed for the listing mems of storage st: the
\* child directories first in ascending order, the child documents next in
\* the order of the listing, the corner connector on the last entry and on
\* no other
LevelInOrder(st, mems, P) ==
  LET L == EntriesAt(st, P)
      D == { q \in DirsAbove(mems) : Parent(q) = P }
      docs == SelectSeq(mems, LAMBDA m : Parent(m.path) = P)
      nd == Cardinality(D)
  IN  /\ Len(L) = nd + Len(docs)
      /\ Len(L) > 0
      /\ \A i \in 1..nd : L[i].kind = "dir"
      /\ { L[i].name : i \in 1..nd } = { Last(q) : q \in D }
      /\ \A i \in 1..nd : \A j \in (i + 1)..nd : StrLess(L[i].name, L[j].name)
      /\ \A i \in 1..Len(docs) :
           /\ L[nd + i].kind = "doc"
           /\ L[nd + i].name = Last(docs[i].path)
           /\ L[nd + i].title = docs[i].title
      /\ \A i \in 1..Len(L) : (L[i].connector = Corner) <=> (i = Len(L))
      /\ \A i \in 1..Len(L) : L[i].connector \in { Corner, Tee }

\* the tree printed for storage st
TreeInOrder(st, mems) ==
  /\ \A P \in { Root } \cup DirsAbove(mems) :
       mems # << >> => LevelInOrder(st, mems, P)
  /\ \A k \in 1..Len(last.out) :
       (last.out[k].kind \in { "dir", "doc" } /\ last.out[k].store = st.label) =>
         \E P \in { Root } \cup DirsAbove(mems) : last.out[k].at = PathString(P)

\* C27: at every level of the tree printed from a listed document set, the
\* direct child directories come first in ascending order, the direct child
\* documents next in the order of the listing, and exactly one entry of the
\* level, the last one printed, carries the last-entry connector.
C27_TreeOrder ==
  (last.op = "tree" /\ last.status = "ok") =>
    LET storages == get_storages(last.dirs, fs, named)
    IN  \A s \in 1..Len(storages) :
          TreeInOrder(storages[s], tree_mems(storages[s].fs, last.path))

\* a tree has been printed with a level that holds two directories and a
\* document, and a level below it that holds a directory and a document
C27_Witness ==
  /\ last.op = "tree" /\ last.status = "ok" /\ last.dirs = << >>
  /\ Len(EntriesAt([label |-> << >>], Root)) = 3
  /\ Len(EntriesAt([label |-> << >>], << SegA >>)) >= 2
  /\ \E k \in 1..Len(last.out) :
       last.out[k].kind = "dir" /\ last.out[k].at = SegA

(***************************************************************************)
(* Listing under a prefix, in the store used by one process.               *)
(***************************************************************************)
\* the documents of list_mems() in the subtree rooted at prefix
UnderPrefix(f, prefix) ==
  SelectSeq(list_mems(f), LAMBDA m : IsStrictPrefix(prefix, m.path))

\* what a listing under prefix is to be
PrefixListed(prefix) ==
  /\ list_mems_under(fs, prefix) = UnderPrefix(fs, prefix)
  /\ last.listing = PathsOf(UnderPrefix(fs, prefix))
  /\ ~is_dir(fs, prefix) => last.listing = << >>

\* C28: list_mems_under(prefix) returns exactly the documents of list_mems()
\* whose logical path begins with prefix followed by '/', each with its full
\* logical path, and returns nothing when no directory is at the prefix.
C28_PrefixListing ==
  (last.op = "list" /\ last.path # << >>) => PrefixListed(last.path)

\* C28 for every prefix that does not lead into the archive subtree
C28_LivePrefixes ==
  (last.op = "list" /\ last.path # << >> /\ ~IsPrefix(<< ArchiveName >>, last.path))
    => PrefixListed(last.path)

\* a listing under a has returned a document two levels below it and one
\* directly in it
C28_LiveWitness ==
  /\ last.op = "list" /\ last.path = << SegA >>
  /\ Len(last.listing) >= 2
  /\ \E k \in 1..Len(last.listing) : Len(last.listing[k]) = 3

(***************************************************************************)
(* Two processes that each write the same path once.  rand_u32 gives each  *)
(* a 32-bit value; the two values may differ or be the same.               *)
(***************************************************************************)
\* the values the two processes draw
RaceRands == 0..MaxRand

RaceInit ==
  /\ fs = FreshStore
  /\ data = << >>
  /\ wr = [w \in ConcurrentIds |-> WriterIdle]
  /\ rd = ReaderIdle
  /\ committed = [p \in { FirstPath } |-> {}]
  /\ ops = 0
  /\ last = NoLast
  /\ cx = CodecIdle
  /\ pr = << >>
  /\ named = << >>

RaceWriter(w) ==
  \/ \E r \in RaceRands :
       wr[w].status = "none" /\ WriteBegin(w, FirstPath, DocOf(w), r)
  \/ WriteMkdir(w)
  \/ WriteCreate(w)
  \/ WriteChunk(w)
  \/ WriteSync(w)
  \/ WriteRename(w)

RaceNext == \E w \in ConcurrentIds : RaceWriter(w)

SpecRace == RaceInit /\ [][RaceNext]_vars

\* the serialized document process w writes
RaceContent(w) == serialize([DocOf(w) EXCEPT !.path = FirstPath])

\* both write_mem calls have returned
RaceOver == \A w \in ConcurrentIds : wr[w].pc = "idle" /\ wr[w].status # "none"

\* no two processes hold the same temporary file open, and once both calls
\* have returned the file at the path is the whole document of one of them
OneWritersDocument ==
  /\ \A v, w \in ConcurrentIds :
       (v # w /\ wr[v].fd # NoInode) => wr[v].fd # wr[w].fd
  /\ RaceOver =>
       ContentAt(fs, data, mem_path(FirstPath)) \in
         { RaceContent(w) : w \in ConcurrentIds }

\* C29: when two write_mem calls on one path race, each writes its content
\* to a temporary file of its own, and in every interleaving the file left
\* at the path is the complete serialized document of one of the two.
C29_RaceLeavesOneDocument == OneWritersDocument

\* C29 where the two processes have drawn different values from rand_u32
C29_DistinctRands ==
  (\A w \in ConcurrentIds : wr[w].status # "none") /\ wr[1].rand # wr[2].rand
    => OneWritersDocument

\* both calls have returned after drawing different values, the second
\* rename having replaced the document of the first
C29_DistinctWitness ==
  /\ RaceOver /\ wr[1].rand # wr[2].rand
  /\ committed[FirstPath] = { RaceContent(w) : w \in ConcurrentIds }

(***************************************************************************)
(* lint over one document whose body is one line, put together from a      *)
(* label, what follows it, a target and an end, and a second link or none. *)
(***************************************************************************)
\* the document whose body is scanned, and the one document beside it
ScanDoc == << SegA, SegB >>
ScanPeer == << SegA, SegC >>

\* labels: balanced, nested, and not closed
ScanLabels ==
  { << "[", "x", "]" >>, << "[", "[", "x", "]", "]" >>, << "[", "x" >>,
    << "[", "[", "x", "]" >>, << "x", "]" >> }

\* what stands between the label and the parenthesis
ScanJoins == { << >>, << "x" >> }

ScanOpens == { << "(" >>, << >> }

\* targets: a document that is there, one that is not, no suffix, http
ScanTargets ==
  { SegC \o DotMd, << "d" >> \o DotMd, SegC, << "h", "t", "t", "p", "d" >> \o DotMd }

ScanCloses == { << ")" >>, << >> }

\* what follows on the line: nothing, or a link to a document that is not
\* there
ScanTails == { << >>, LinkTo(<< "e" >> \o DotMd) }

ScanLines ==
  { label \o join \o open \o target \o close \o tail :
      label \in ScanLabels, join \in ScanJoins, open \in ScanOpens,
      target \in ScanTargets, close \in ScanCloses, tail \in ScanTails }

ScanInit ==
  /\ fs = write_mem(FreshStore, new(ScanPeer, << "x" >>, << "x" >>, 0), CliRand).fs
  /\ named = << >>
  /\ last = NoLint
  /\ ops = 0
  /\ wr = << >>
  /\ rd = << >>
  /\ committed = << >>
  /\ cx = CodecIdle
  /\ data = << >>
  /\ pr = << >>

ScanNext ==
  \/ \E line \in ScanLines : ~exists(fs, ScanDoc) /\ LintAdd(ScanDoc, line)
  \/ Lint(<< >>)

SpecScan == ScanInit /\ [][ScanNext]_vars

\* the number of "[" less the number of "]" in line[i..j]
RECURSIVE Depth(_, _, _)
Depth(line, i, j) ==
  IF j < i THEN 0
  ELSE Depth(line, i, j - 1)
       + (IF line[j] = "[" THEN 1 ELSE IF line[j] = "]" THEN 0 - 1 ELSE 0)

\* the first position after i at which the brackets opened from i on are all
\* closed, or 0
LabelEnd(line, i) ==
  IF \E j \in (i + 1)..Len(line) : Depth(line, i, j) = 0
  THEN CHOOSE j \in (i + 1)..Len(line) :
         /\ Depth(line, i, j) = 0
         /\ \A k \in (i + 1)..(j - 1) : Depth(line, i, k) # 0
  ELSE 0

\* the first ")" after the "(" at position j + 1, or 0
TargetEnd(line, j) ==
  IF \E e \in (j + 2)..Len(line) : line[e] = ")"
  THEN CHOOSE e \in (j + 2)..Len(line) :
         line[e] = ")" /\ \A k \in (j + 2)..(e - 1) : line[k] # ")"
  ELSE 0

HasParen(line, j) == j # 0 /\ j < Len(line) /\ line[j + 1] = "("

\* where the scan goes on after the "[" at position i
ScanResume(line, i) ==
  IF LabelEnd(line, i) = 0 THEN Len(line) + 1
  ELSE IF ~HasParen(line, LabelEnd(line, i)) THEN LabelEnd(line, i) + 1
  ELSE IF TargetEnd(line, LabelEnd(line, i)) = 0 THEN Len(line) + 1
  ELSE TargetEnd(line, LabelEnd(line, i)) + 1

\* the positions the scan looks at for a "[", from p on
RECURSIVE ScanStarts(_, _)
ScanStarts(line, p) ==
  IF p > Len(line) THEN {}
  ELSE { p } \cup ScanStarts(line, IF line[p] = "[" THEN ScanResume(line, p)
                                   ELSE p + 1)

\* the links of the line: a "[" the scan looks at, its label closed with the
\* brackets balanced, "(" as the very next character, the target running to
\* the next ")"
LinksIn(line) ==
  { i \in ScanStarts(line, 1) :
      /\ line[i] = "["
      /\ HasParen(line, LabelEnd(line, i))
      /\ TargetEnd(line, LabelEnd(line, i)) # 0 }

TargetIn(line, i) ==
  SubSeq(line, LabelEnd(line, i) + 2, TargetEnd(line, LabelEnd(line, i)) - 1)

\* the links of the line whose target is checked and is not there
MissingIn(line) ==
  { i \in LinksIn(line) :
      /\ EndsWith(TargetIn(line, i), DotMd)
      /\ ~StartsWith(TargetIn(line, i), << "h", "t", "t", "p" >>)
      /\ ~exists(fs, link_path(ScanDoc, TargetIn(line, i))) }

\* the body of the scanned document
ScanLine == read_mem(fs, ScanDoc).mem.content

\* C30: a link is recognised only as a "[" label closed with the brackets
\* balanced, "(" as the very next character and the target running to the
\* next ")"; its target is checked if and only if it ends with .md and does
\* not begin with http; every other shape gives no finding and no error.
C30_ScannerClassification ==
  (last.op = "lint" /\ exists(fs, ScanDoc)) =>
    /\ last.status \in { "ok", "lint failed" }
    /\ \A k \in 1..Len(last.issues) :
         /\ last.issues[k].kind = "broken link"
         /\ last.issues[k].path = ScanDoc
    /\ { last.issues[k].link : k \in 1..Len(last.issues) }
         = { TargetIn(ScanLine, i) : i \in MissingIn(ScanLine) }
    /\ Len(last.issues) = Cardinality(MissingIn(ScanLine))

\* lint has run on a line with a nested label whose target is closed only
\* by the parenthesis of the second link, and has reported it
C30_Witness ==
  /\ last.op = "lint" /\ last.status = "lint failed"
  /\ exists(fs, ScanDoc)
  /\ StartsWith(ScanLine, << "[", "[" >>)
  /\ Cardinality(MissingIn(ScanLine)) = 1
  /\ \E i \in MissingIn(ScanLine) : Find(TargetIn(ScanLine, i), << "[" >>) # 0

(***************************************************************************)
(* The hierarchy mem tree prints.                                          *)
(***************************************************************************)
\* the places in the output where an entry of this kind and name is printed
\* for storage st at level P
PrintedAt(st, kind, P, name) ==
  { k \in 1..Len(last.out) :
      /\ last.out[k].kind = kind
      /\ last.out[k].store = st.label
      /\ last.out[k].at = PathString(P)
      /\ last.out[k].name = name }

\* the number of entries of this kind printed for storage st
PrintedCount(st, kind) ==
  Cardinality({ k \in 1..Len(last.out) :
                  last.out[k].kind = kind /\ last.out[k].store = st.label })

\* the tree printed for the listing mems of storage st has one directory for
\* each strict prefix of a document path, under its own parent, and no
\* other; and each document once, under its immediate parent
HierarchyExact(st, mems) ==
  /\ \A q \in DirsAbove(mems) :
       Cardinality(PrintedAt(st, "dir", Parent(q), Last(q))) = 1
  /\ mems # << >> => PrintedCount(st, "dir") = Cardinality(DirsAbove(mems))
  /\ \A i \in 1..Len(mems) :
       Cardinality(PrintedAt(st, "doc", Parent(mems[i].path), Last(mems[i].path))) = 1
  /\ mems # << >> => PrintedCount(st, "doc") = Len(mems)

\* C31: for every listed document set the tree holds one directory for each
\* strict prefix of a document path and no other, each once under its own
\* parent, and every document once under its immediate parent prefix; the
\* traversal ends.
C31_HierarchyExact ==
  (last.op = "tree" /\ last.status = "ok") =>
    LET storages == get_storages(last.dirs, fs, named)
    IN  \A s \in 1..Len(storages) :
          HierarchyExact(storages[s], tree_mems(storages[s].fs, last.path))

\* a tree of the whole store has been printed that holds a directory two
\* levels down, three directories in all and a top-level document
C31_Witness ==
  /\ last.op = "tree" /\ last.status = "ok"
  /\ last.dirs = << >> /\ last.path = << >>
  /\ PrintedCount([label |-> << >>], "dir") = 3
  /\ PrintedAt([label |-> << >>], "dir", << SegA >>, SegB) # {}
  /\ PrintedAt([label |-> << >>], "doc", Root, SegB) # {}

(***************************************************************************)
(* The error read_mem returns.                                             *)
(***************************************************************************)
\* the error of a failed read_mem: the text of the message and the values
\* formatted into it.  Only "mem not found: {path}" carries the path; the
\* errors of fs::read_to_string and of Mem::parse are returned as they are
read_mem_error(f, path) ==
  IF ~path_exists(f, mem_path(path))
  THEN [text |-> "mem not found", args |-> { PathString(path) }]
  ELSE IF mem_path(path) \notin DOMAIN f.files
  THEN [text |-> "failed to read file", args |-> {}]
  ELSE [text |-> parse(path, f.files[mem_path(path)]).err, args |-> {}]

\* C32: when the file at the resolved path of p cannot be decoded,
\* read_mem(p) fails with an error that identifies p and returns no
\* document.
C32_CorruptNamesPath ==
  (last.op = "read" /\ last.status = "corrupt") =>
    /\ last.mem = NoMem
    /\ PathString(last.path) \in read_mem_error(fs, last.path).args

\* C32 without the path in the error: a read_mem of a file that does not
\* decode fails, returns no document and leaves the store as it was
C32_CorruptReadHarmless ==
  [][(last'.op = "read" /\ ops' = ops + 1
      /\ mem_path(last'.path) \in DOMAIN fs.files
      /\ parse(last'.path, fs.files[mem_path(last'.path)]).err # "") =>
       (last'.status = "corrupt" /\ last'.mem = NoMem /\ fs' = fs)]_vars

\* a read_mem has failed on a file that does not decode
C32_CorruptWitness ==
  /\ last.op = "read" /\ last.status = "corrupt"
  /\ read_mem_error(fs, last.path).text # ""

(***************************************************************************)
(* A store with one file that was not written by write_mem: its text is    *)
(* any of the texts the decoder is tried on.                               *)
(***************************************************************************)
\* the paths read: the one with the file, and one with none
CorruptPaths == { << SegC >>, << SegA, SegB >> }

CorruptInit ==
  /\ fs \in { [FreshStore EXCEPT !.files = PutFile(@, mem_path(<< SegC >>), t)] :
              t \in ParseTexts }
  /\ last = NoLast
  /\ ops = 0
  /\ wr = << >>
  /\ rd = << >>
  /\ committed = << >>
  /\ cx = CodecIdle
  /\ data = << >>
  /\ pr = << >>
  /\ named = << >>

CorruptNext == \E p \in CorruptPaths : Read(p)

SpecCorrupt == CorruptInit /\ [][CorruptNext]_vars

(***************************************************************************)
(* Listing a store whose documents are written at logical paths of several *)
(* shapes: plain, below a directory, a last segment that itself ends in    *)
(* .md, a hidden last segment, a directory whose name ends in .tmp.        *)
(***************************************************************************)
SegCMd == SegC \o DotMd
SegDotC == << "." >> \o SegC
SegATmp == SegA \o DotTmp

ShapePaths ==
  { << SegC >>, << SegA, SegB >>, << SegCMd >>, << SegDotC >>, << SegATmp, SegC >> }

\* the one document written, less its path
ShapeMem == new(<< >>, << "x" >>, << "y" >>, 3)

ShapeNext ==
  \/ \E p \in ShapePaths, r \in Rands : Write(p, ShapeMem, r)
  \/ \E p \in ShapePaths : Delete(p)
  \/ \E p \in ShapePaths : Archive(p)
  \/ List(<< >>)

SpecShapes == Init /\ [][ShapeNext]_vars

\* the logical paths of the live documents: written, not since deleted or
\* archived, the file decodable
LivePaths(f) == { p \in ShapePaths : read_mem(f, p).status = "ok" }

\* the places of the listing that bear the logical path p
ListedAt(p) == { k \in 1..Len(last.listing) : last.listing[k] = p }

\* C33: after any sequence of write_mem, delete_mem and archive_mem,
\* list_mems() returns every live document exactly once under the logical
\* path it was written with, whatever the shape of the path, and returns no
\* document for which exists(path) is false.
C33_ListingComplete ==
  (last.op = "list" /\ last.path = << >>) =>
    /\ \A p \in LivePaths(fs) : Cardinality(ListedAt(p)) = 1
    /\ \A k \in 1..Len(last.listing) : exists(fs, last.listing[k])

\* a logical path none of whose segments begins with a dot or ends in .md
\* or .tmp
PlainShape(p) ==
  \A k \in 1..Len(p) :
    ~StartsWith(p[k], << "." >>) /\ ~EndsWith(p[k], DotMd) /\ ~EndsWith(p[k], DotTmp)

\* C33 for the stores all of whose documents are at plain paths
C33_PlainShapes ==
  (last.op = "list" /\ last.path = << >>
   /\ \A p \in ShapePaths : exists(fs, p) => PlainShape(p)) =>
    /\ \A p \in LivePaths(fs) : Cardinality(ListedAt(p)) = 1
    /\ \A k \in 1..Len(last.listing) : exists(fs, last.listing[k])

\* two documents at plain paths have been listed
C33_PlainWitness ==
  /\ last.op = "list" /\ last.path = << >>
  /\ LivePaths(fs) = { << SegC >>, << SegA, SegB >> }
  /\ Len(last.listing) = 2

(***************************************************************************)
(* Archiving over an earlier archived document, in the store used by one   *)
(* process.                                                                *)
(***************************************************************************)
\* the files of the archive subtree
ArchiveFilesOf(f) == { q \in DOMAIN f.files : IsPrefix(<< ArchiveName >>, q) }

\* C34: when the archive already holds a document at relative path p, a
\* later archive_mem(p) of a new live document at p leaves the earlier
\* archived document in the archive.
C34_ArchiveKeepsEarlier ==
  [][(Did("archive", "ok")
      /\ << ArchiveName >> \o mem_path(last'.path) \in DOMAIN fs.files) =>
       \E q \in ArchiveFilesOf(fs') :
         fs'.files[q] = fs.files[<< ArchiveName >> \o mem_path(last'.path)]]_vars

\* an archive_mem neither removes nor changes a file of the archive other
\* than the one at the relative path of the document it moves
C34_OtherArchivedKept ==
  [][Did("archive", "ok") =>
       \A q \in ArchiveFilesOf(fs) :
         (q # << ArchiveName >> \o mem_path(last'.path) /\ q # mem_path(last'.path)) =>
           (q \in DOMAIN fs'.files /\ fs'.files[q] = fs.files[q])]_vars

(***************************************************************************)
(* Two processes that each run mem add, without --force, on the same       *)
(* absent path: the test of exists, then write_mem one system call at a    *)
(* time.                                                                   *)
(***************************************************************************)
\* the document process w adds: -c x for the first, -c y for the second
AddDoc(w, now) ==
  new(FirstPath, replace_dashes(Last(FirstPath)), << IF w = 1 THEN "x" ELSE "y" >>, now)

\* cmd_add up to the call of write_atomic: storage.exists(path) && !force
AddExists(w, now, r) ==
  /\ wr[w].pc = "idle" /\ wr[w].status = "none"
  /\ IF exists(fs, FirstPath)
     THEN /\ wr' = [wr EXCEPT ![w] = [WriterIdle EXCEPT !.path = FirstPath,
                                                        !.status = "already exists"]]
          /\ UNCHANGED <<fs, data, rd, committed, ops, last, cx, pr, named>>
     ELSE WriteBegin(w, FirstPath, AddDoc(w, now), r)

AddRacer(w) ==
  \/ \E now \in Clock, r \in RaceRands : AddExists(w, now, r)
  \/ WriteMkdir(w)
  \/ WriteCreate(w)
  \/ WriteChunk(w)
  \/ WriteSync(w)
  \/ WriteRename(w)

AddRaceNext == \E w \in ConcurrentIds : AddRacer(w)

SpecAddRace == RaceInit /\ [][AddRaceNext]_vars

\* the processes whose add has reported success
Succeeded == { w \in ConcurrentIds : wr[w].pc = "idle" /\ wr[w].status = "ok" }

\* C35: of two add invocations without force that race on one absent path,
\* at most one reports success, and the document at the path afterwards is
\* the one that invocation wrote.
C35_OneAddSucceeds ==
  RaceOver =>
    /\ Cardinality(Succeeded) <= 1
    /\ \A w \in Succeeded :
         ContentAt(fs, data, mem_path(FirstPath)) = wr[w].content

\* an add that tests exists after the other add has returned is refused,
\* and the document of the first stays
C35_LateAddRefused ==
  [][\A w \in ConcurrentIds :
       (wr[w].status = "none" /\ wr'[w].status # "none"
        /\ \E v \in Succeeded : v # w) =>
         (wr'[w].status = "already exists" /\ fs' = fs /\ data' = data)]_vars

\* the second add has been refused after the first had returned
C35_LateWitness ==
  /\ RaceOver
  /\ \E w \in ConcurrentIds : wr[w].status = "already exists"
  /\ Cardinality(Succeeded) = 1

(***************************************************************************)
(* What delete_mem leaves alone, in the store used by one process.         *)
(***************************************************************************)
ArchiveDirsOf(f) == { d \in f.dirs : IsPrefix(<< ArchiveName >>, d) }

\* between f and g nothing has changed but the file, which may be gone, and
\* directories above it that hold nothing any more; the archive subtree is
\* as it was
FrameOf(f, g, file) ==
  /\ DOMAIN g.files \subseteq DOMAIN f.files
  /\ \A q \in DOMAIN f.files :
       q # file => (q \in DOMAIN g.files /\ g.files[q] = f.files[q])
  /\ g.dirs \subseteq f.dirs
  /\ \A d \in f.dirs \ g.dirs :
       /\ IsStrictPrefix(d, file)
       /\ ~\E q \in g.dirs \cup DOMAIN g.files : IsStrictPrefix(d, q)
  /\ ArchiveDirsOf(g) = ArchiveDirsOf(f)
  /\ ArchiveFilesOf(g) = ArchiveFilesOf(f)
  /\ \A q \in ArchiveFilesOf(f) : g.files[q] = f.files[q]

\* C36: delete_mem(p) changes nothing but p and its now-empty ancestors:
\* every other document stays with the same content at the same path, every
\* directory that still holds an entry is kept, and the archive subtree is
\* unchanged.
C36_DeleteFrame ==
  [][(last'.op = "delete" /\ ops' = ops + 1) =>
       FrameOf(fs, fs', mem_path(last'.path))]_vars

\* C36 for a delete_mem of a path that does not lead into the archive
C36_LiveDeleteFrame ==
  [][(last'.op = "delete" /\ ops' = ops + 1
      /\ ~IsPrefix(<< ArchiveName >>, last'.path)) =>
       FrameOf(fs, fs', mem_path(last'.path))]_vars

\* a/b/c has been deleted and its directory with it, while a/b and an
\* archived document stayed
C36_LiveWitness ==
  /\ last.op = "delete" /\ last.status = "ok"
  /\ last.path = << SegA, SegB, SegC >>
  /\ << SegA, SegB >> \notin fs.dirs
  /\ mem_path(<< SegA, SegB >>) \in DOMAIN fs.files
  /\ ArchiveFilesOf(fs) # {}

(***************************************************************************)
(* The link scanner of cmd_lint, one call of the character iterator at a   *)
(* time.  Positions in the line are byte offsets, as char_indices gives    *)
(* them; "u" stands for a character that takes two bytes.                  *)
(***************************************************************************)
ScanChars == { "[", "]", "(", ")", "x", "u" }

Width(c) == IF c = "u" THEN 2 ELSE 1

RECURSIVE ByteLen(_)
ByteLen(s) == IF s = << >> THEN 0 ELSE Width(Head(s)) + ByteLen(Tail(s))

\* the byte offset of the k-th character of line
ByteIdx(line, k) == ByteLen(SubSeq(line, 1, k - 1))

ScannerLines == UNION { [1..n -> ScanChars] : n \in 0..MaxLine }

\* the scanner before the first character: at is the character the
\* iterator yields next, taken the characters it has yielded
ScannerAt(line) ==
  [line |-> line, pc |-> "scan", at |-> 1, depth |-> 0, j |-> 0,
   start |-> 0, end |-> 0, slices |-> << >>, taken |-> << >>]

ScannerInit ==
  /\ pr \in { ScannerAt(line) : line \in ScannerLines }
  /\ fs = FreshStore
  /\ last = NoLast
  /\ ops = 0
  /\ wr = << >>
  /\ rd = << >>
  /\ committed = << >>
  /\ cx = CodecIdle
  /\ data = << >>
  /\ named = << >>

\* chars.next() has yielded the character at pr.at
Taken(s) == [s EXCEPT !.at = @ + 1, !.taken = Append(@, s.at)]

\* the bounds of the target with the end left at zero
target_bounds_unset(s) == [s EXCEPT !.start = s.j + 2, !.end = 0]

\* let start = j + 2; let mut end = start;
target_bounds(s) == [s EXCEPT !.start = s.j + 2, !.end = s.j + 2]

\* let link = &line[start..end]
slice_taken(s) ==
  [s EXCEPT !.slices = Append(@, [start |-> s.start, end |-> s.end]), !.pc = "scan"]

\* while let Some((i, c)) = chars.next(), and the test c == '['
ScanChar ==
  /\ pr.pc = "scan"
  /\ pr' = IF pr.at > Len(pr.line) THEN [pr EXCEPT !.pc = "done"]
           ELSE IF pr.line[pr.at] = "["
           THEN [Taken(pr) EXCEPT !.pc = "label", !.depth = 1,
                                  !.j = ByteIdx(pr.line, pr.at) + 1]
           ELSE Taken(pr)
  /\ UNCHANGED <<fs, last, ops, wr, rd, committed, cx, data, named>>

\* the loop that looks for the closing bracket
LabelChar ==
  /\ pr.pc = "label"
  /\ pr' = IF pr.at > Len(pr.line) THEN [pr EXCEPT !.pc = "peek"]
           ELSE IF pr.line[pr.at] = "["
           THEN [Taken(pr) EXCEPT !.j = ByteIdx(pr.line, pr.at), !.depth = @ + 1]
           ELSE IF pr.line[pr.at] = "]"
           THEN [Taken(pr) EXCEPT !.j = ByteIdx(pr.line, pr.at), !.depth = @ - 1,
                                  !.pc = IF pr.depth = 1 THEN "peek" ELSE "label"]
           ELSE [Taken(pr) EXCEPT !.j = ByteIdx(pr.line, pr.at)]
  /\ UNCHANGED <<fs, last, ops, wr, rd, committed, cx, data, named>>

\* if let Some(&(_, '(')) = chars.peek()
PeekParen ==
  /\ pr.pc = "peek"
  /\ pr' = IF pr.at <= Len(pr.line) /\ pr.line[pr.at] = "("
           THEN [target_bounds(Taken(pr)) EXCEPT !.pc = "target"]
           ELSE [pr EXCEPT !.pc = "scan"]
  /\ UNCHANGED <<fs, last, ops, wr, rd, committed, cx, data, named>>

\* the loop that looks for the closing parenthesis, and the slice
TargetChar ==
  /\ pr.pc = "target"
  /\ pr' = IF pr.at > Len(pr.line) THEN slice_taken(pr)
           ELSE IF pr.line[pr.at] = ")"
           THEN slice_taken([Taken(pr) EXCEPT !.end = ByteIdx(pr.line, pr.at)])
           ELSE Taken(pr)
  /\ UNCHANGED <<fs, last, ops, wr, rd, committed, cx, data, named>>

ScannerNext == ScanChar \/ LabelChar \/ PeekParen \/ TargetChar

SpecScanner == ScannerInit /\ [][ScannerNext]_vars /\ WF_vars(ScannerNext)

\* byte offset b lies between two characters of line, or at an end of it
OnBoundary(line, b) == \E k \in 1..(Len(line) + 1) : ByteIdx(line, k) = b

\* every slice taken so far is within the line and on character boundaries
SlicesInBounds ==
  \A n \in 1..Len(pr.slices) :
    /\ pr.slices[n].start <= pr.slices[n].end
    /\ pr.slices[n].end <= ByteLen(pr.line)
    /\ OnBoundary(pr.line, pr.slices[n].start)
    /\ OnBoundary(pr.line, pr.slices[n].end)

\* the iterator has yielded the characters of the line in order, each once,
\* and all of them when the scan is over
EachCharOnce ==
  /\ \A n \in 1..Len(pr.taken) : pr.taken[n] = n
  /\ Len(pr.taken) <= Len(pr.line)
  /\ pr.pc = "done" => Len(pr.taken) = Len(pr.line)

\* C37: on every body line, multi-byte characters and lines that end right
\* after "]" or "(" included, the bounds of every target slice satisfy
\* start <= end <= length of the line and lie on character boundaries, every
\* character is consumed at most once, and the scan ends at the end of the
\* line.
C37_ScannerSafe ==
  /\ [](SlicesInBounds /\ EachCharOnce)
  /\ <>(pr.pc = "done")

\* the scan of a line that ends right after "(", with a two-byte character
\* in the label, is over and has taken the empty slice at the end of the line
C37_Witness ==
  /\ pr.pc = "done"
  /\ pr.line = << "[", "u", "]", "(" >>
  /\ pr.slices = << [start |-> ByteLen(pr.line), end |-> ByteLen(pr.line)] >>

====
